---- MODULE Spec2Model ----
(***************************************************************************)
(* flash-gateway: the per-request state machine of the proxy handler       *)
(* (internal/handlers/proxy.go), the guardrail executor it calls           *)
(* (internal/guardrails/executor.go) and the refusal response builder      *)
(* (internal/handlers/guardrail_response_builder.go).                      *)
(*                                                                         *)
(* A guardrail list is the sequence of the priorities of its guardrails;   *)
(* a guardrail is named by its position in the configured list, so names   *)
(* are unique and Name() = position, Priority() = list[position].          *)
(* The empty name (Go's zero string) is NoName.                            *)
(***************************************************************************)
EXTENDS Integers, Sequences, FiniteSets, Bags, TLC

\* ---------------------------------------------------------------- bounds
MaxGuardrails == 2
MaxPriority == 1

LogBufferSize == 1
LogBatchSize == 2
MetricsBufferSize == 1
MetricsBatchSize == 2
MaxSubmits == 2

\* The workers one sink starts.
Workers == 2

\* Capture limits run over 1..MaxCaptureSize, bodies up to one byte beyond;
\* a header map holds up to MaxHeaders names.
MaxCaptureSize == 2
MaxHeaders == 2

Requests == {"r1", "r2"}
Priorities == 0..MaxPriority
GuardrailLists == UNION {[1..k -> Priorities] : k \in 0..MaxGuardrails}

\* FailedGuardrail of an ExecutionResult that names no guardrail ("").
NoName == 0

VARIABLES
    cfg,            \* executor wiring: guardrail lists, executor and metrics writer present or nil
    request,        \* per request: what the client sent (method, path, body)
    hpc,            \* per request: where ServeHTTP stands
    requestBody,    \* per request: ServeHTTP's requestBody
    forwardBody,    \* per request: r.Body as the provider will read it
    hres,           \* per request: the ExecutionResult ServeHTTP holds in `result`
    upstream,       \* per request: the provider's response (resp), once received
    responseBody,   \* per request: ServeHTTP's responseBody (decompressed copy for guardrails)
    client,         \* per request: what was written to the http.ResponseWriter
    blockCtx,       \* per request: the "guardrail_block" value attached to the request context
    providerCalls,  \* per request: number of provider.ProxyRequest invocations
    ex,             \* per request: the frame of the running executeParallel call
    executed,       \* per request: the executor calls ServeHTTP got back, <<call, Passed>>
    trace,          \* per request: what happened to each task: spawn, invoke, outcome, return
    metrics,        \* per request: bag of the metrics handed to metricsWriter.Write
    rid,            \* per request: ServeHTTP's requestID
    cap,            \* per request: the Capture middleware's call around ServeHTTP
    logSink,        \* the AsyncLogWriter: channel, worker, counters
    metricSink,     \* the MetricsWriter: channel, worker, counters
    db,             \* the PostgreSQL backend: request_logs and guardrail_metrics rows
    unit,           \* one call of a capture function on its own: its inputs and what it produced
    pool            \* one sink with its submitters, its mutex and its workers

vars == <<cfg, request, hpc, requestBody, forwardBody, hres, upstream, responseBody,
          client, blockCtx, providerCalls, executed, ex, trace, metrics,
          rid, cap, logSink, metricSink, db, unit, pool>>

handlerVars == <<request, hpc, requestBody, forwardBody, hres, upstream, responseBody,
                 client, blockCtx, providerCalls, executed, rid, cap, logSink, db>>

\* What ServeHTTP holds of its requests.
handlerVarsOfRequests ==
    <<request, hpc, requestBody, forwardBody, hres, upstream, responseBody,
      client, blockCtx, providerCalls, executed, rid>>

\* What the capture layer, the two sinks and the database hold.
sinkVars == <<cap, logSink, metricSink, db>>

\* Everything the running gateway holds.
gatewayVars == <<cfg, request, hpc, requestBody, forwardBody, hres, upstream, responseBody,
                 client, blockCtx, providerCalls, executed, ex, trace, metrics,
                 rid, cap, logSink, metricSink, db>>

\* ------------------------------------------------------------ guardrails

\* What one Check invocation may return.
\*   pass, modify: (result with Passed = true [and ModifiedContent], nil)
\*   reject:       (result with Passed = false, nil)
\*   error:        (nil, an error of the guardrail's own)
\*   ctxerr:       (nil, ctx.Err()): the guardrail observed the cancelled context
Outcomes == {"pass", "modify", "reject", "error", "ctxerr"}

OutcomePassed(o) == o \in {"pass", "modify"}
OutcomeFails(o) == o \in {"reject", "error", "ctxerr"}

ModifiedContent(name) == "modified-by-" \o ToString(name)
RejectReason(name) == "rejected-by-" \o ToString(name)
OwnError(name) == "error-of-" \o ToString(name)

Canceled == "context canceled"
DeadlineExceeded == "context deadline exceeded"

\* ------------------------------------------------------------- executor

NoFailure == [set |-> FALSE, Name |-> NoName, Priority |-> 0, Reason |-> ""]

\* A nil entry of a []*GuardrailResult.
NilResult == [isNil |-> TRUE, Name |-> NoName, Priority |-> 0,
              Modified |-> FALSE, ModifiedContent |-> ""]

NoExecutionResult == [Passed |-> FALSE, FailedGuardrail |-> NoName,
                      FailureReason |-> "", Results |-> <<>>]

IdleFrame ==
    [state |-> "idle", call |-> "", layer |-> "", guardrails |-> <<>>,
     content |-> "", priorities |-> <<>>, allResults |-> <<>>, timedOut |-> FALSE,
     hasResponses |-> FALSE, originalResponse |-> "", overrideResponse |-> "",
     group |-> <<>>, pc |-> <<>>, given |-> <<>>, outcome |-> <<>>, err |-> <<>>,
     gerr |-> "", gctx |-> "", firstFailure |-> NoFailure, results |-> <<>>,
     result |-> NoExecutionResult,
     \* bookkeeping of the deadline: which Checks were running when it expired,
     \* and whether any Check had by then returned a failure
     deadlineInFlight |-> {}, deadlineClean |-> FALSE, failures |-> {}]

RECURSIVE SortInts(_)
SortInts(S) ==
    IF S = {} THEN <<>>
    ELSE LET m == CHOOSE x \in S : \A y \in S : x <= y
         IN <<m>> \o SortInts(S \ {m})

RECURSIVE SortIntsDescending(_)
SortIntsDescending(S) ==
    IF S = {} THEN <<>>
    ELSE LET m == CHOOSE x \in S : \A y \in S : x >= y
         IN <<m>> \o SortIntsDescending(S \ {m})

SortedPrioritiesDescending(guardrails) ==
    SortIntsDescending({guardrails[i] : i \in DOMAIN guardrails})

\* The keys of priorityGroups, sorted by sort.Ints.
SortedPriorities(guardrails) ==
    SortInts({guardrails[i] : i \in DOMAIN guardrails})

\* priorityGroups[priority]: the guardrails of one priority, in configured order.
GroupOf(guardrails, priority) ==
    SelectSeq([i \in 1..Len(guardrails) |-> i], LAMBDA i : guardrails[i] = priority)

\* executeParallel without its test for the empty list.
StartExecWithoutEmptyCheck(call, layer, guardrails, content, hasResponses, original, override) ==
    [IdleFrame EXCEPT !.state = "running", !.call = call, !.layer = layer,
                      !.guardrails = guardrails, !.content = content,
                      !.priorities = SortedPriorities(guardrails),
                      !.hasResponses = hasResponses,
                      !.originalResponse = original,
                      !.overrideResponse = override]

\* executeParallel up to its loop: the empty list returns at once, otherwise
\* the deadline context is created and the priorities are sorted.
StartExec(call, layer, guardrails, content, hasResponses, original, override) ==
    IF Len(guardrails) = 0
    THEN [IdleFrame EXCEPT !.state = "done", !.call = call, !.layer = layer,
                           !.content = content,
                           !.result = [Passed |-> TRUE, FailedGuardrail |-> NoName,
                                       FailureReason |-> "", Results |-> <<>>]]
    ELSE [IdleFrame EXCEPT !.state = "running", !.call = call, !.layer = layer,
                           !.guardrails = guardrails, !.content = content,
                           !.priorities = SortedPriorities(guardrails),
                           !.hasResponses = hasResponses,
                           !.originalResponse = original,
                           !.overrideResponse = override]

\* errgroup.WithContext: the group context is a child of the deadline context.
DerivedContext(f) == IF f.timedOut THEN DeadlineExceeded ELSE ""

\* The head of executeGroupParallel for the next priority: one task per guardrail.
SpawnGroupF(f) ==
    LET group == GroupOf(f.guardrails, Head(f.priorities))
        n == Len(group)
    IN [f EXCEPT !.group = group,
                 !.pc = [k \in 1..n |-> "spawned"],
                 !.given = [k \in 1..n |-> ""],
                 !.outcome = [k \in 1..n |-> ""],
                 !.err = [k \in 1..n |-> ""],
                 !.gerr = "", !.gctx = DerivedContext(f),
                 !.firstFailure = NoFailure,
                 !.results = [k \in 1..n |-> NilResult]]

\* errgroup.Group.Go's wrapper: the first task that returns an error stores it
\* and cancels the group context.
GroupTaskReturned(f, e) ==
    IF e # "" /\ f.gerr = ""
    THEN [f EXCEPT !.gerr = e, !.gctx = IF @ = "" THEN Canceled ELSE @]
    ELSE f

\* The task's first step: return ctx.Err() if the context is already done,
\* otherwise invoke Check on the content executeGroupParallel was given.
TaskStartF(f, k) ==
    IF f.gctx # ""
    THEN GroupTaskReturned([f EXCEPT !.pc[k] = "returned"], f.gctx)
    ELSE [f EXCEPT !.pc[k] = "checking", !.given[k] = f.content]

CheckError(f, k, o) ==
    IF o = "error" THEN OwnError(f.group[k])
    ELSE IF o = "ctxerr" THEN f.gctx
    ELSE ""

\* Check has returned (result, err) for task k.
CheckReturnF(f, k, o) ==
    [f EXCEPT !.pc[k] = "checked", !.outcome[k] = o, !.err[k] = CheckError(f, k, o),
              !.failures = IF OutcomeFails(o) THEN @ \cup {f.group[k]} ELSE @]

NewMetricWithBodiesWheneverGiven(requestID, f, k) ==
    LET name == f.group[k]
        failed == f.err[k] # "" \/ ~OutcomePassed(f.outcome[k])
        attach == f.err[k] = "" /\ f.layer = "output" /\ f.hasResponses
    IN [ID |-> <<f.call, name>>, RequestID |-> requestID, GuardrailName |-> name,
        Layer |-> f.layer, Priority |-> f.guardrails[name],
        Passed |-> ~failed, Error |-> f.err[k],
        OriginalResponse |-> IF attach THEN f.originalResponse ELSE "",
        OverrideResponse |-> IF attach THEN f.overrideResponse ELSE "",
        ResponseOverridden |-> attach]

\* The Metric the task builds from what Check returned.
NewMetric(requestID, f, k) ==
    LET name == f.group[k]
        failed == f.err[k] # "" \/ ~OutcomePassed(f.outcome[k])
        attach == f.err[k] = "" /\ ~OutcomePassed(f.outcome[k])
                  /\ f.layer = "output" /\ f.hasResponses
    IN [ID |-> <<f.call, name>>, RequestID |-> requestID, GuardrailName |-> name,
        Layer |-> f.layer, Priority |-> f.guardrails[name],
        Passed |-> ~failed, Error |-> f.err[k],
        OriginalResponse |-> IF attach THEN f.originalResponse ELSE "",
        OverrideResponse |-> IF attach THEN f.overrideResponse ELSE "",
        ResponseOverridden |-> attach]

\* Under failureMu: keep the failure unless one of a lower or equal priority
\* value is already tracked.
TrackFailure(firstFailure, name, priority, reason) ==
    IF ~firstFailure.set \/ priority < firstFailure.Priority
    THEN [set |-> TRUE, Name |-> name, Priority |-> priority, Reason |-> reason]
    ELSE firstFailure

\* After the metric is written: track the failure, or store the passing result.
TaskRecordF(f, k) ==
    LET name == f.group[k]
        priority == f.guardrails[name]
    IN IF f.err[k] # ""
       THEN [f EXCEPT !.pc[k] = "recorded",
                      !.firstFailure = TrackFailure(@, name, priority, f.err[k])]
       ELSE IF ~OutcomePassed(f.outcome[k])
       THEN [f EXCEPT !.pc[k] = "recorded",
                      !.firstFailure = TrackFailure(@, name, priority, RejectReason(name))]
       ELSE [f EXCEPT !.pc[k] = "recorded",
                      !.results[k] = [isNil |-> FALSE, Name |-> name, Priority |-> priority,
                                      Modified |-> f.outcome[k] = "modify",
                                      ModifiedContent |-> IF f.outcome[k] = "modify"
                                                          THEN ModifiedContent(name) ELSE ""]]

\* The error the task function returns to the errgroup.
TaskError(f, k) ==
    LET name == ToString(f.group[k])
    IN IF f.err[k] # "" THEN name \o " failed: " \o f.err[k]
       ELSE IF ~OutcomePassed(f.outcome[k]) THEN name \o " rejected: " \o RejectReason(f.group[k])
       ELSE ""

TaskReturnF(f, k) ==
    GroupTaskReturned([f EXCEPT !.pc[k] = "returned"], TaskError(f, k))

ReturnTaskCancellingEveryScope(frames, r, k) ==
    [q \in DOMAIN frames |->
        IF q = r THEN TaskReturnF(frames[q], k)
        ELSE IF TaskError(frames[r], k) # "" /\ frames[q].group # <<>> /\ frames[q].gctx = ""
        THEN [frames[q] EXCEPT !.gctx = Canceled]
        ELSE frames[q]]

\* A task of request r returns into the errgroup of r's own executeGroupParallel
\* call: g and its context are locals of that call.
ReturnTask(frames, r, k) == [frames EXCEPT ![r] = TaskReturnF(@, k)]

\* A Wait that returns as soon as one task has returned an error.
WaitReturnsOnFirstError(f) ==
    f.group # <<>> /\ (f.gerr # "" \/ \A k \in DOMAIN f.pc : f.pc[k] = "returned")

\* g.Wait() returns once every task of the group has returned.
WaitReturns(f) ==
    f.group # <<>> /\ \A k \in DOMAIN f.pc : f.pc[k] = "returned"

GroupResultBlamingFirst(f) ==
    IF f.gerr # "" /\ f.firstFailure.set
    THEN [Passed |-> FALSE, FailedGuardrail |-> f.group[1],
          FailureReason |-> f.firstFailure.Reason, Results |-> f.results]
    ELSE IF f.gerr # ""
    THEN [Passed |-> FALSE, FailedGuardrail |-> NoName,
          FailureReason |-> "Guardrail execution failed: " \o f.gerr,
          Results |-> f.results]
    ELSE [Passed |-> TRUE, FailedGuardrail |-> NoName, FailureReason |-> "",
          Results |-> f.results]

\* What executeGroupParallel returns after g.Wait().
GroupResult(f) ==
    IF f.gerr # "" /\ f.firstFailure.set
    THEN [Passed |-> FALSE, FailedGuardrail |-> f.firstFailure.Name,
          FailureReason |-> f.firstFailure.Reason, Results |-> f.results]
    ELSE IF f.gerr # ""
    THEN [Passed |-> FALSE, FailedGuardrail |-> NoName,
          FailureReason |-> "Guardrail execution failed: " \o f.gerr,
          Results |-> f.results]
    ELSE [Passed |-> TRUE, FailedGuardrail |-> NoName, FailureReason |-> "",
          Results |-> f.results]

\* The last non-nil result of a list that carries ModifiedContent, or none.
RECURSIVE LastModified(_)
LastModified(results) ==
    IF results = <<>> THEN NilResult
    ELSE LET rest == LastModified(Tail(results))
         IN IF ~rest.isNil THEN rest
            ELSE IF ~Head(results).isNil /\ Head(results).Modified THEN Head(results)
            ELSE NilResult

\* The first non-nil result of a list that carries ModifiedContent, or none.
RECURSIVE FirstModified(_)
FirstModified(results) ==
    IF results = <<>> THEN NilResult
    ELSE IF ~Head(results).isNil /\ Head(results).Modified THEN Head(results)
    ELSE FirstModified(Tail(results))

ClearGroup(f) ==
    [f EXCEPT !.group = <<>>, !.pc = <<>>, !.given = <<>>, !.outcome = <<>>, !.err = <<>>,
              !.gerr = "", !.gctx = "", !.firstFailure = NoFailure, !.results = <<>>]

ContinueAfterGroupIgnoringFailure(f) ==
    LET gr == [GroupResult(f) EXCEPT !.Passed = TRUE]
        all == f.allResults \o gr.Results
        rest == Tail(f.priorities)
    IN IF rest = <<>>
       THEN [ClearGroup(f) EXCEPT !.state = "done", !.allResults = all, !.priorities = rest,
                  !.result = [Passed |-> TRUE, FailedGuardrail |-> NoName,
                              FailureReason |-> "", Results |-> all]]
       ELSE [ClearGroup(f) EXCEPT !.allResults = all, !.priorities = rest]

\* The body of executeParallel's loop after executeGroupParallel returned:
\* a failed group ends the call, a passed group feeds the next one.
ContinueAfterGroup(f) ==
    LET gr == GroupResult(f)
        all == f.allResults \o gr.Results
        m == FirstModified(gr.Results)
        content == IF m.isNil THEN f.content ELSE m.ModifiedContent
        rest == Tail(f.priorities)
    IN IF ~gr.Passed
       THEN [ClearGroup(f) EXCEPT !.state = "done", !.allResults = all,
                  !.result = [Passed |-> FALSE, FailedGuardrail |-> gr.FailedGuardrail,
                              FailureReason |-> gr.FailureReason, Results |-> all]]
       ELSE IF rest = <<>>
       THEN [ClearGroup(f) EXCEPT !.state = "done", !.allResults = all,
                  !.content = content, !.priorities = rest,
                  !.result = [Passed |-> TRUE, FailedGuardrail |-> NoName,
                              FailureReason |-> "", Results |-> all]]
       ELSE [ClearGroup(f) EXCEPT !.allResults = all, !.content = content,
                                  !.priorities = rest]

\* ------------------------------------------------------ executor actions

Event(kind, f, k) == <<kind, f.call, f.group[k]>>

SpawnGroup(r) ==
    /\ ex[r].state = "running"
    /\ ex[r].group = <<>>
    /\ ex[r].priorities # <<>>
    /\ ex' = [ex EXCEPT ![r] = SpawnGroupF(@)]
    /\ trace' = [trace EXCEPT ![r] =
                    @ \cup {<<"spawn", ex[r].call, i>> :
                              i \in {j \in DOMAIN ex[r].guardrails :
                                       ex[r].guardrails[j] = Head(ex[r].priorities)}}]
    /\ UNCHANGED <<cfg, unit, pool, handlerVars, metrics, metricSink>>

TaskStart(r, k) ==
    /\ ex[r].state = "running"
    /\ k \in DOMAIN ex[r].pc
    /\ ex[r].pc[k] = "spawned"
    /\ ex' = [ex EXCEPT ![r] = TaskStartF(@, k)]
    /\ trace' = [trace EXCEPT ![r] =
                    @ \cup {Event(IF ex'[r].pc[k] = "checking" THEN "invoke" ELSE "return",
                                  ex[r], k)}]
    /\ UNCHANGED <<cfg, unit, pool, handlerVars, metrics, metricSink>>

\* e.metricsWriter.Write(metric), when a metrics writer is configured.
WriteMetric(bag, metric) ==
    IF cfg.metricsWriter THEN bag (+) SetToBag({metric}) ELSE bag

\* MetricsWriter.Write: the record goes on metricsChannel when it has room;
\* when it has none the record is dropped and counted.
Write(w, metric) ==
    IF Len(w.channel) < MetricsBufferSize
    THEN [w EXCEPT !.channel = Append(@, metric), !.totalWrites = @ + 1]
    ELSE [w EXCEPT !.droppedWrites = @ + 1]

CheckReturn(r, k, o) ==
    /\ ex[r].state = "running"
    /\ k \in DOMAIN ex[r].pc
    /\ ex[r].pc[k] = "checking"
    /\ o = "ctxerr" => ex[r].gctx # ""
    /\ ex' = [ex EXCEPT ![r] = CheckReturnF(@, k, o)]
    /\ metrics' = [metrics EXCEPT ![r] = WriteMetric(@, NewMetric(rid[r], ex'[r], k))]
    /\ metricSink' = IF cfg.metricsWriter
                      THEN Write(metricSink, NewMetric(rid[r], ex'[r], k))
                      ELSE metricSink
    /\ trace' = [trace EXCEPT ![r] = @ \cup {Event(o, ex[r], k)}]
    /\ UNCHANGED <<cfg, unit, pool, handlerVars>>

TaskRecord(r, k) ==
    /\ ex[r].state = "running"
    /\ k \in DOMAIN ex[r].pc
    /\ ex[r].pc[k] = "checked"
    /\ ex' = [ex EXCEPT ![r] = TaskRecordF(@, k)]
    /\ UNCHANGED <<cfg, unit, pool, handlerVars, trace, metrics, metricSink>>

TaskReturn(r, k) ==
    /\ ex[r].state = "running"
    /\ k \in DOMAIN ex[r].pc
    /\ ex[r].pc[k] = "recorded"
    /\ ex' = ReturnTask(ex, r, k)
    /\ trace' = [trace EXCEPT ![r] = @ \cup {Event("return", ex[r], k)}]
    /\ UNCHANGED <<cfg, unit, pool, handlerVars, metrics, metricSink>>

GroupWait(r) ==
    /\ ex[r].state = "running"
    /\ WaitReturns(ex[r])
    /\ ex' = [ex EXCEPT ![r] = ContinueAfterGroup(@)]
    /\ UNCHANGED <<cfg, unit, pool, handlerVars, trace, metrics, metricSink>>

\* The timer of context.WithTimeout(ctx, e.timeout) fires.
Deadline(r) ==
    /\ ex[r].state = "running"
    /\ ~ex[r].timedOut
    /\ ex' = [ex EXCEPT ![r].timedOut = TRUE,
                        ![r].gctx = IF ex[r].group # <<>> /\ @ = ""
                                    THEN DeadlineExceeded ELSE @,
                        ![r].deadlineInFlight =
                            {ex[r].group[k] : k \in {j \in DOMAIN ex[r].pc :
                                                        ex[r].pc[j] = "checking"}},
                        ![r].deadlineClean = ex[r].failures = {}]
    /\ UNCHANGED <<cfg, unit, pool, handlerVars, trace, metrics, metricSink>>

\* ------------------------------------------------------ response builder

RefusalString == "I cannot service this request"

\* buildChatCompletionResponse / buildLegacyCompletionResponse: the marshalled
\* document, reduced to its "object" and the content it carries (the random id
\* and the creation time are left out).
ChatCompletionResponse == "{object: chat.completion, content: " \o RefusalString \o "}"
LegacyCompletionResponse == "{object: text_completion, text: " \o RefusalString \o "}"

BuildResponse(endpoint) ==
    CASE endpoint = "/v1/chat/completions" -> ChatCompletionResponse
      [] endpoint = "/v1/completions" -> LegacyCompletionResponse
      [] endpoint = "/v1/responses" -> ChatCompletionResponse
      [] OTHER -> ChatCompletionResponse

\* --------------------------------------------------------------- headers

CorsHeaders ==
    {"Access-Control-Allow-Origin", "Access-Control-Allow-Methods",
     "Access-Control-Allow-Headers", "Access-Control-Max-Age",
     "Access-Control-Allow-Credentials", "Access-Control-Expose-Headers"}
HeaderNames == {"Content-Type", "Content-Length", "Content-Encoding",
                "X-Content-Type-Options", "Via"} \cup CorsHeaders

NoHeaders == [h \in HeaderNames |-> <<>>]

HeaderSet(header, key, value) == [header EXCEPT ![key] = <<value>>]
HeaderAdd(header, key, value) == [header EXCEPT ![key] = Append(@, value)]
HeaderGet(header, key) == IF header[key] = <<>> THEN "" ELSE header[key][1]

\* w.Header() as ServeHTTP finds it: middleware.CORS has set its headers.
WriterHeaders ==
    [NoHeaders EXCEPT
       !["Access-Control-Allow-Origin"] = <<"*">>,
       !["Access-Control-Allow-Methods"] = <<"GET, POST, PUT, DELETE, OPTIONS, PATCH">>,
       !["Access-Control-Allow-Headers"] = <<"Content-Type, Authorization, X-Requested-With">>,
       !["Access-Control-Max-Age"] = <<"86400">>]

CopyValuesAddingAll(header, key, values) == [header EXCEPT ![key] = @ \o values]

RECURSIVE CopyValues(_, _, _)
CopyValues(header, key, values) ==
    IF values = <<>> THEN header
    ELSE CopyValues(IF key \in CorsHeaders
                    THEN HeaderSet(header, key, Head(values))
                    ELSE HeaderAdd(header, key, Head(values)),
                    key, Tail(values))

RECURSIVE CopyKeys(_, _, _)
CopyKeys(header, from, keys) ==
    IF keys = {} THEN header
    ELSE LET key == CHOOSE k \in keys : TRUE
         IN CopyKeys(CopyValues(header, key, from[key]), from, keys \ {key})

\* for key, values := range resp.Header { for _, value := range values { ... } }
CopyHeaders(header, from) == CopyKeys(header, from, HeaderNames)

\* -------------------------------------------------------------- upstream

JsonHeaders == HeaderSet(NoHeaders, "Content-Type", "application/json")
TextHeaders == HeaderSet(NoHeaders, "Content-Type", "text/plain")
GzipHeaders ==
    [NoHeaders EXCEPT !["Content-Type"] = <<"application/json">>,
                      !["Content-Encoding"] = <<"gzip">>,
                      !["Content-Length"] = <<"5">>,
                      !["Access-Control-Allow-Origin"] = <<"a.example", "b.example">>,
                      !["Access-Control-Expose-Headers"] = <<"X-A", "X-B">>,
                      !["Via"] = <<"1.1 a", "1.1 b">>]

\* The gzip stream of "up"; every other body of the model is no gzip stream.
GzipOfUp == "gzip(up)"

\* decompressGzip: the decompressed bytes, or an error.
decompressGzip(data) ==
    IF data = GzipOfUp THEN [ok |-> TRUE, data |-> "up"] ELSE [ok |-> FALSE, data |-> ""]

\* What provider.ProxyRequest followed by io.ReadAll(resp.Body) may yield.
UpstreamResponses ==
    { [StatusCode |-> 200, Header |-> JsonHeaders, Body |-> "up"],
      [StatusCode |-> 200, Header |-> GzipHeaders, Body |-> GzipOfUp],
      [StatusCode |-> 200, Header |-> GzipHeaders, Body |-> "up"],
      [StatusCode |-> 200, Header |-> JsonHeaders, Body |-> ""],
      [StatusCode |-> 500, Header |-> TextHeaders, Body |-> "upstream error"] }

NoUpstream == [StatusCode |-> 0, Header |-> NoHeaders, Body |-> ""]

\* The copy of the upstream body the output guardrails evaluate.
GuardrailCopy(resp) ==
    IF HeaderGet(resp.Header, "Content-Encoding") = "gzip" /\ decompressGzip(resp.Body).ok
    THEN decompressGzip(resp.Body).data
    ELSE resp.Body

\* --------------------------------------------------------------- handler

Routes == {"/v1/chat/completions", "/v1/completions", "/v1/embeddings"}

\* EndpointConfig.Methods: the methods the provider's configuration advertises
\* for an endpoint.
EndpointMethods(path) == {"POST"}

ToUpper(method) == IF method = "post" THEN "POST" ELSE method

isMethodAllowed(method) == ToUpper(method) \in {"GET", "POST", "PUT", "DELETE", "PATCH"}

\* The requests a client may send.
ClientRequests ==
    { [method |-> m, path |-> "/v1/chat/completions", body |-> b] :
         m \in {"GET", "POST", "TRACE"}, b \in {"", "b"} }
    \cup { [method |-> "POST", path |-> p, body |-> "b"] :
             p \in {"/v1/completions", "/v1/embeddings", "/v1/unknown"} }
    \cup { [method |-> "post", path |-> "/v1/chat/completions", body |-> "b"] }

NoRequest == [method |-> "", path |-> "", body |-> ""]

NoResponse == [written |-> FALSE, status |-> 0, header |-> WriterHeaders, body |-> ""]

NoBlock == [Blocked |-> FALSE, Layer |-> "", GuardrailName |-> NoName,
            GuardrailReason |-> "", OriginalResponse |-> "", OverrideResponse |-> ""]

\* http.Error(w, msg, code)
HttpError(w, msg, code) ==
    [written |-> TRUE, status |-> code,
     header |-> HeaderSet(HeaderSet(w.header, "Content-Type", "text/plain; charset=utf-8"),
                          "X-Content-Type-Options", "nosniff"),
     body |-> msg]

\* returnGuardrailError: the structured JSON error envelope.
returnGuardrailError(w, errorType, message, statusCode) ==
    [written |-> TRUE, status |-> statusCode,
     header |-> HeaderSet(w.header, "Content-Type", "application/json"),
     body |-> "{error: " \o errorType \o ", message: " \o message \o ", status: blocked}"]

\* The input-block branch's three writes: Content-Type, 200, the refusal.
WriteInputRefusal(w, overrideResponse) ==
    [written |-> TRUE, status |-> 200,
     header |-> HeaderSet(w.header, "Content-Type", "application/json"),
     body |-> overrideResponse]

WriteOutputRefusalWithUpstreamStatus(w, resp, overrideResponse) ==
    [written |-> TRUE, status |-> resp.StatusCode,
     header |-> HeaderSet(HeaderSet(CopyHeaders(w.header, resp.Header),
                                    "Content-Length", ToString(Len(overrideResponse))),
                          "Content-Type", "application/json"),
     body |-> overrideResponse]

\* The output-block branch: upstream headers copied, Content-Length and
\* Content-Type set, 200, the refusal.
WriteOutputRefusal(w, resp, overrideResponse) ==
    [written |-> TRUE, status |-> 200,
     header |-> HeaderSet(HeaderSet(CopyHeaders(w.header, resp.Header),
                                    "Content-Length", ToString(Len(overrideResponse))),
                          "Content-Type", "application/json"),
     body |-> overrideResponse]

WritePassThroughDecompressed(w, resp) ==
    [written |-> TRUE, status |-> resp.StatusCode,
     header |-> CopyHeaders(w.header, resp.Header),
     body |-> GuardrailCopy(resp)]

\* The pass-through tail of ServeHTTP.
WritePassThrough(w, resp) ==
    [written |-> TRUE, status |-> resp.StatusCode,
     header |-> CopyHeaders(w.header, resp.Header),
     body |-> resp.Body]

\* ------------------------------------------------------- handler actions

NoUUID == <<>>

\* uuid.New(): a value that no other call of uuid.New() returns; the calls are
\* told apart by where they are made and for which request.
NewUUID(site, r) == <<site, r>>

getRequestIDFromContextMintingItsOwn(r) == NewUUID("handler", r)

\* getRequestIDFromContext: the "request_id" value Capture put on the context,
\* or a new UUID when the context carries none.
getRequestIDFromContext(r) ==
    IF cap[r].pc = "serving" THEN cap[r].requestID ELSE NewUUID("handler", r)

Finish(r, response) ==
    /\ client' = [client EXCEPT ![r] = response]
    /\ hpc' = [hpc EXCEPT ![r] = "done"]

\* ServeHTTP from its entry to the buffered request body. readFails: io.ReadAll
\* on the request body returns an error.
Route(r, readFails) ==
    /\ hpc[r] = "start"
    /\ cap[r].pc # "arrived"
    /\ rid' = [rid EXCEPT ![r] = IF request[r].path \in Routes /\ isMethodAllowed(request[r].method)
                                 THEN getRequestIDFromContext(r) ELSE @]
    /\ LET req == request[r]
           hasBody == req.method \in {"POST", "PUT", "PATCH"}
       IN IF req.path \notin Routes
          THEN /\ Finish(r, HttpError(client[r], "Endpoint " \o req.path \o " not found", 404))
               /\ UNCHANGED requestBody
          ELSE IF ~isMethodAllowed(req.method)
          THEN /\ Finish(r, HttpError(client[r], "Method " \o req.method \o " not allowed for endpoint "
                                               \o req.path, 405))
               /\ UNCHANGED requestBody
          ELSE IF hasBody /\ readFails
          THEN /\ Finish(r, HttpError(client[r], "Error reading request body", 400))
               /\ UNCHANGED requestBody
          ELSE /\ ~readFails
               /\ requestBody' = [requestBody EXCEPT ![r] = IF hasBody THEN req.body ELSE ""]
               /\ hpc' = [hpc EXCEPT ![r] = "inputGuard"]
               /\ UNCHANGED client
    /\ UNCHANGED <<cfg, unit, pool, sinkVars, request, forwardBody, hres, upstream, responseBody, blockCtx,
                   providerCalls, executed, ex, trace, metrics>>

\* The condition under which ServeHTTP does not run the input guardrails.
SkipsInputGuardrails(r) == ~(cfg.executor /\ Len(requestBody[r]) > 0)

\* "Run input guardrails if enabled and executor is available": the call of
\* ExecuteInput, or the step past it.
InputGuardrails(r) ==
    /\ hpc[r] = "inputGuard"
    /\ IF SkipsInputGuardrails(r)
       THEN /\ hpc' = [hpc EXCEPT ![r] = "proxy"]
            /\ UNCHANGED ex
       ELSE /\ hpc' = [hpc EXCEPT ![r] = "inputExec"]
            /\ ex' = [ex EXCEPT ![r] =
                        StartExec("input", "input", cfg.inputGuardrails, requestBody[r],
                                  FALSE, "", "")]
    /\ UNCHANGED <<cfg, unit, pool, sinkVars, rid, request, requestBody, forwardBody, hres, upstream, responseBody,
                   client, blockCtx, providerCalls, executed, trace, metrics>>

\* The error executeParallel returns beside its result: always nil.
ExecuteError(f) == ""

NotPassedAndNamed(result) == ~result.Passed /\ result.FailedGuardrail # NoName

\* if !result.Passed
NotPassed(result) == ~result.Passed

\* ServeHTTP after ExecuteInput returned.
InputResult(r) ==
    /\ hpc[r] = "inputExec"
    /\ ex[r].state = "done"
    /\ LET result == ex[r].result
           m == FirstModified(result.Results)
       IN /\ hres' = [hres EXCEPT ![r] = result]
          /\ executed' = [executed EXCEPT ![r] = @ \cup {<<"input", result.Passed>>}]
          /\ IF ExecuteError(ex[r]) # ""
             THEN /\ Finish(r, returnGuardrailError(client[r], "input_guardrails_error",
                                   "Failed to execute input guardrails", 500))
                  /\ UNCHANGED <<blockCtx, requestBody, forwardBody>>
             ELSE IF NotPassed(result)
             THEN /\ Finish(r, WriteInputRefusal(client[r], BuildResponse(request[r].path)))
                  /\ blockCtx' = [blockCtx EXCEPT ![r] =
                        [Blocked |-> TRUE, Layer |-> "input",
                         GuardrailName |-> result.FailedGuardrail,
                         GuardrailReason |-> result.FailureReason,
                         OriginalResponse |-> "",
                         OverrideResponse |-> BuildResponse(request[r].path)]]
                  /\ UNCHANGED <<requestBody, forwardBody>>
             ELSE /\ hpc' = [hpc EXCEPT ![r] = "proxy"]
                  /\ requestBody' = [requestBody EXCEPT ![r] =
                                       IF m.isNil THEN @ ELSE m.ModifiedContent]
                  /\ forwardBody' = [forwardBody EXCEPT ![r] =
                                       IF m.isNil THEN @ ELSE m.ModifiedContent]
                  /\ UNCHANGED <<client, blockCtx>>
    /\ ex' = [ex EXCEPT ![r] = IdleFrame]
    /\ UNCHANGED <<cfg, unit, pool, sinkVars, rid, request, upstream, responseBody, providerCalls, trace, metrics>>

\* provider.ProxyRequest called again after a first error.
ProxyRequestRetryingOnce(r, outcome, resp) ==
    /\ hpc[r] = "proxy"
    /\ providerCalls' = [providerCalls EXCEPT ![r] = @ + 1]
    /\ CASE outcome = "error" /\ providerCalls[r] = 0 ->
              UNCHANGED <<hpc, client, upstream, responseBody>>
         [] outcome = "error" ->
              /\ Finish(r, HttpError(client[r], "Proxy request failed", 502))
              /\ UNCHANGED <<upstream, responseBody>>
         [] outcome = "unreadable" ->
              /\ Finish(r, HttpError(client[r], "Error reading response body", 500))
              /\ UNCHANGED <<upstream, responseBody>>
         [] OTHER ->
              /\ upstream' = [upstream EXCEPT ![r] = resp]
              /\ responseBody' = [responseBody EXCEPT ![r] = GuardrailCopy(resp)]
              /\ hpc' = [hpc EXCEPT ![r] = "outputGuard"]
              /\ UNCHANGED client
    /\ UNCHANGED <<cfg, unit, pool, sinkVars, rid, request, requestBody, forwardBody, hres, blockCtx, executed, ex,
                   trace, metrics>>

\* provider.ProxyRequest and io.ReadAll(resp.Body). outcome: "error" (the
\* provider returns an error), "unreadable" (the body read fails) or "ok".
ProxyRequest(r, outcome, resp) ==
    /\ hpc[r] = "proxy"
    /\ providerCalls' = [providerCalls EXCEPT ![r] = @ + 1]
    /\ CASE outcome = "error" ->
              /\ Finish(r, HttpError(client[r], "Proxy request failed", 502))
              /\ UNCHANGED <<upstream, responseBody>>
         [] outcome = "unreadable" ->
              /\ Finish(r, HttpError(client[r], "Error reading response body", 500))
              /\ UNCHANGED <<upstream, responseBody>>
         [] OTHER ->
              /\ upstream' = [upstream EXCEPT ![r] = resp]
              /\ responseBody' = [responseBody EXCEPT ![r] = GuardrailCopy(resp)]
              /\ hpc' = [hpc EXCEPT ![r] = "outputGuard"]
              /\ UNCHANGED client
    /\ UNCHANGED <<cfg, unit, pool, sinkVars, rid, request, requestBody, forwardBody, hres, blockCtx, executed, ex,
                   trace, metrics>>

\* "Run output guardrails if enabled and executor is available": the call of
\* ExecuteOutput, or the step past it.
OutputGuardrails(r) ==
    /\ hpc[r] = "outputGuard"
    /\ IF cfg.executor /\ Len(responseBody[r]) > 0
       THEN /\ hpc' = [hpc EXCEPT ![r] = "outputExec"]
            /\ ex' = [ex EXCEPT ![r] =
                        StartExec("output", "output", cfg.outputGuardrails, responseBody[r],
                                  FALSE, "", "")]
       ELSE /\ hpc' = [hpc EXCEPT ![r] = "respond"]
            /\ UNCHANGED ex
    /\ UNCHANGED <<cfg, unit, pool, sinkVars, rid, request, requestBody, forwardBody, hres, upstream, responseBody,
                   client, blockCtx, providerCalls, executed, trace, metrics>>

\* ServeHTTP after ExecuteOutput returned: go on to respond, or build the
\* refusal and call ExecuteOutputWithResponses.
OutputResult(r) ==
    /\ hpc[r] = "outputExec"
    /\ ex[r].state = "done"
    /\ LET result == ex[r].result
       IN /\ hres' = [hres EXCEPT ![r] = result]
          /\ executed' = [executed EXCEPT ![r] = @ \cup {<<"output", result.Passed>>}]
          /\ IF ExecuteError(ex[r]) # ""
             THEN /\ Finish(r, returnGuardrailError(client[r], "output_guardrails_error",
                                   "Failed to execute output guardrails", 500))
                  /\ ex' = [ex EXCEPT ![r] = IdleFrame]
             ELSE IF NotPassed(result)
             THEN /\ hpc' = [hpc EXCEPT ![r] = "rerunExec"]
                  /\ ex' = [ex EXCEPT ![r] =
                              StartExec("rerun", "output", cfg.outputGuardrails,
                                        responseBody[r], TRUE, upstream[r].Body,
                                        BuildResponse(request[r].path))]
                  /\ UNCHANGED client
             ELSE /\ hpc' = [hpc EXCEPT ![r] = "respond"]
                  /\ ex' = [ex EXCEPT ![r] = IdleFrame]
                  /\ UNCHANGED client
    /\ UNCHANGED <<cfg, unit, pool, sinkVars, rid, request, requestBody, forwardBody, upstream, responseBody,
                   blockCtx, providerCalls, trace, metrics>>

\* ServeHTTP after ExecuteOutputWithResponses returned: the block context and
\* the refusal written in place of the upstream response.
OverrideResponse(r) ==
    /\ hpc[r] = "rerunExec"
    /\ ex[r].state = "done"
    /\ blockCtx' = [blockCtx EXCEPT ![r] =
          [Blocked |-> TRUE, Layer |-> "output",
           GuardrailName |-> hres[r].FailedGuardrail,
           GuardrailReason |-> hres[r].FailureReason,
           OriginalResponse |-> upstream[r].Body,
           OverrideResponse |-> BuildResponse(request[r].path)]]
    /\ Finish(r, WriteOutputRefusal(client[r], upstream[r], BuildResponse(request[r].path)))
    /\ executed' = [executed EXCEPT ![r] = @ \cup {<<"rerun", ex[r].result.Passed>>}]
    /\ ex' = [ex EXCEPT ![r] = IdleFrame]
    /\ UNCHANGED <<cfg, unit, pool, sinkVars, rid, request, requestBody, forwardBody, hres, upstream, responseBody,
                   providerCalls, trace, metrics>>

\* The pass-through tail of ServeHTTP.
Respond(r) ==
    /\ hpc[r] = "respond"
    /\ Finish(r, WritePassThrough(client[r], upstream[r]))
    /\ UNCHANGED <<cfg, unit, pool, sinkVars, rid, request, requestBody, forwardBody, hres, upstream, responseBody,
                   blockCtx, providerCalls, executed, ex, trace, metrics>>

\* ------------------------------------------- capture, sinks and database

\* What Capture holds for a request. pc: "none" (no capture middleware in the
\* chain), "arrived", "serving" (inside next.ServeHTTP), "logged" (WriteLog
\* returned). log is the record handed to WriteLog; queued and closing record
\* whether the sink took it and whether Close had begun by then.
NoLog == [ID |-> NoUUID, RequestID |-> NoUUID, Endpoint |-> "", Method |-> "",
          StatusCode |-> 0, ResponseBody |-> ""]

NoCapture == [pc |-> "none", requestID |-> NoUUID, log |-> NoLog,
              queued |-> FALSE, closing |-> FALSE]

Arrived == [NoCapture EXCEPT !.pc = "arrived"]

\* NewAsyncLogWriter with an enabled configuration and a backend, and its one
\* worker started. channel is logChannel, batch the worker's local batch;
\* flushes records the calls of flushBatch so far, closedOn the case of
\* Close's select that ended its wait.
NewAsyncLogWriter ==
    [channel |-> <<>>, batch |-> <<>>, worker |-> "running", cancelled |-> FALSE,
     closed |-> FALSE, closedOn |-> "", totalLogs |-> 0, droppedLogs |-> 0,
     failedBatches |-> 0, flushes |-> <<>>]

\* NewMetricsWriter and its one worker.
NewMetricsWriter ==
    [channel |-> <<>>, batch |-> <<>>, worker |-> "running", cancelled |-> FALSE,
     totalWrites |-> 0, droppedWrites |-> 0, failedBatches |-> 0,
     flushes |-> <<>>]

\* The tables request_logs and guardrail_metrics, and whether the connection
\* pool has been closed.
EmptyStorage == [request_logs |-> {}, guardrail_metrics |-> EmptyBag, closed |-> FALSE]

\* The process is up: main has not returned from logWriter.Close(), and no
\* goroutine has panicked.
Alive == ~logSink.closed /\ logSink.worker # "panicked"

\* Capture up to next.ServeHTTP: the request id is minted and put on the
\* request's context.
CaptureBegin(r) ==
    /\ cap[r].pc = "arrived"
    /\ cap' = [cap EXCEPT ![r] = [@ EXCEPT !.pc = "serving",
                                          !.requestID = NewUUID("capture", r)]]
    /\ UNCHANGED <<cfg, unit, pool, request, hpc, requestBody, forwardBody, hres, upstream,
                   responseBody, client, blockCtx, providerCalls, executed, rid,
                   ex, trace, metrics, logSink, metricSink, db>>

\* The response body Capture logs: nil (here "") when nothing was written,
\* the decompressed bytes when the response says gzip and they decompress.
LoggedBody(w) ==
    IF HeaderGet(w.header, "Content-Encoding") = "gzip" /\ decompressGzip(w.body).ok
    THEN decompressGzip(w.body).data
    ELSE w.body

\* The RequestLog Capture completes after next.ServeHTTP returned. The type
\* has no field for a guardrail outcome, and Capture reads nothing back from
\* the request's context.
CompleteRequestLog(r) ==
    [ID |-> NewUUID("log", r), RequestID |-> cap[r].requestID,
     Endpoint |-> request[r].path, Method |-> request[r].method,
     StatusCode |-> client[r].status, ResponseBody |-> LoggedBody(client[r])]

\* AsyncLogWriter.WriteLog losing a record the queue has no room for without
\* counting it.
WriteLogUncounted(w, log) ==
    IF Len(w.channel) < LogBufferSize
    THEN [w EXCEPT !.channel = Append(@, log), !.totalLogs = @ + 1]
    ELSE w

\* AsyncLogWriter.WriteLog: the record goes on logChannel when it has room;
\* when it has none the record is dropped and counted.
WriteLog(w, log) ==
    IF Len(w.channel) < LogBufferSize
    THEN [w EXCEPT !.channel = Append(@, log), !.totalLogs = @ + 1]
    ELSE [w EXCEPT !.droppedLogs = @ + 1]

\* Capture from the return of next.ServeHTTP to the return of WriteLog.
CaptureEnd(r) ==
    /\ cap[r].pc = "serving"
    /\ hpc[r] = "done"
    /\ logSink' = WriteLog(logSink, CompleteRequestLog(r))
    /\ cap' = [cap EXCEPT ![r] = [@ EXCEPT !.pc = "logged",
                                          !.log = CompleteRequestLog(r),
                                          !.queued = Len(logSink.channel) < LogBufferSize,
                                          !.closing = logSink.cancelled]]
    /\ UNCHANGED <<cfg, unit, pool, request, hpc, requestBody, forwardBody, hres, upstream,
                   responseBody, client, blockCtx, providerCalls, executed, rid,
                   ex, trace, metrics, metricSink, db>>

\* The row of request_logs an inserted RequestLog becomes: the INSERT names
\* neither guardrails_passed nor failed_guardrail_name, which take their
\* column defaults TRUE and NULL.
RequestLogRow(log) ==
    [ID |-> log.ID, RequestID |-> log.RequestID, Endpoint |-> log.Endpoint,
     Method |-> log.Method, StatusCode |-> log.StatusCode,
     ResponseBody |-> log.ResponseBody,
     GuardrailsPassed |-> TRUE, FailedGuardrailName |-> NoName]

Range(seq) == {seq[i] : i \in DOMAIN seq}

\* What can fail a database call for a reason of the database's own (a lost
\* connection, the 10 second timeout of flushBatch): nothing, the call that
\* opens the work (BeginTx, PrepareContext), or the statement or the commit.
Faults == {"none", "begin", "exec"}

\* PostgreSQLStorage.SaveRequestLogsBatch: one multi-row INSERT in one
\* transaction. BeginTx fails on a closed pool. The loop that builds the
\* statement dereferences every record's ResponseBody, which panics on a nil
\* one. A repeated id or request_id (unique index) fails the whole statement,
\* and the deferred Rollback leaves the table as it was.
SaveRequestLogsBatch(d, batch, fault) ==
    LET rows == {RequestLogRow(batch[i]) : i \in DOMAIN batch}
        repeated ==
            \/ \E i, j \in DOMAIN batch :
                   i # j /\ (batch[i].RequestID = batch[j].RequestID \/ batch[i].ID = batch[j].ID)
            \/ \E row \in rows, old \in d.request_logs :
                   row.RequestID = old.RequestID \/ row.ID = old.ID
    IN IF d.closed \/ fault = "begin"
       THEN [panic |-> FALSE, ok |-> FALSE, db |-> d]
       ELSE IF \E i \in DOMAIN batch : batch[i].ResponseBody = ""
       THEN [panic |-> TRUE, ok |-> FALSE, db |-> d]
       ELSE IF fault = "exec" \/ repeated
       THEN [panic |-> FALSE, ok |-> FALSE, db |-> d]
       ELSE [panic |-> FALSE, ok |-> TRUE,
             db |-> [d EXCEPT !.request_logs = @ \cup rows]]

\* if len(batch) >= batchSize, taken for strictly more than batchSize records.
BatchOverfull(batch, batchSize) == Len(batch) > batchSize

\* if len(batch) >= batchSize
BatchFull(batch, batchSize) == Len(batch) >= batchSize

\* AsyncLogWriter.flushBatch with the worker keeping a batch that failed, to
\* flush it again.
LogFlushKeepingFailedBatch(w, d, batch, after, on, fault) ==
    LET saved == SaveRequestLogsBatch(d, batch, fault)
    IN /\ logSink' = [w EXCEPT !.batch = IF saved.ok THEN <<>> ELSE batch,
                               !.worker = IF saved.panic THEN "panicked" ELSE after,
                               !.failedBatches = IF saved.ok \/ saved.panic THEN @ ELSE @ + 1,
                               !.flushes = Append(@, [batch |-> batch, on |-> on,
                                                      ok |-> saved.ok, panic |-> saved.panic])]
       /\ db' = saved.db

\* AsyncLogWriter.flushBatch: the batch is saved or lost; a failure is counted.
\* after is what the worker goes on as, on the case of the worker's select the
\* flush is made from.
LogFlush(w, d, batch, after, on, fault) ==
    LET saved == SaveRequestLogsBatch(d, batch, fault)
    IN /\ logSink' = [w EXCEPT !.batch = <<>>,
                               !.worker = IF saved.panic THEN "panicked" ELSE after,
                               !.failedBatches = IF saved.ok \/ saved.panic THEN @ ELSE @ + 1,
                               !.flushes = Append(@, [batch |-> batch, on |-> on,
                                                      ok |-> saved.ok, panic |-> saved.panic])]
       /\ db' = saved.db

\* worker, case requestLog := <-w.logChannel. The case can be taken whenever
\* the channel holds a record, also after the context is cancelled.
LogWorkerReceive(fault) ==
    /\ logSink.worker = "running"
    /\ logSink.channel # <<>>
    /\ LET w == [logSink EXCEPT !.channel = Tail(@)]
           batch == Append(logSink.batch, Head(logSink.channel))
       IN IF BatchFull(batch, LogBatchSize)
          THEN LogFlush(w, db, batch, "running", "full", fault)
          ELSE /\ fault = "none"
               /\ logSink' = [w EXCEPT !.batch = batch]
               /\ UNCHANGED db
    /\ UNCHANGED <<cfg, unit, pool, handlerVarsOfRequests, ex, trace, metrics, cap, metricSink>>

\* worker, case <-ticker.C.
LogWorkerTick(fault) ==
    /\ logSink.worker = "running"
    /\ logSink.batch # <<>>
    /\ LogFlush(logSink, db, logSink.batch, "running", "tick", fault)
    /\ UNCHANGED <<cfg, unit, pool, handlerVarsOfRequests, ex, trace, metrics, cap, metricSink>>

\* worker, case <-w.ctx.Done(), returning without the flush of its batch.
LogWorkerDoneWithoutFlush(fault) ==
    /\ logSink.worker = "running"
    /\ logSink.cancelled
    /\ fault = "none"
    /\ logSink' = [logSink EXCEPT !.worker = "exited"]
    /\ UNCHANGED <<cfg, unit, pool, handlerVarsOfRequests, ex, trace, metrics, cap, metricSink, db>>

\* worker, case <-w.ctx.Done(): the local batch is flushed and the worker
\* returns; what is still on logChannel stays there.
LogWorkerDone(fault) ==
    /\ logSink.worker = "running"
    /\ logSink.cancelled
    /\ IF logSink.batch # <<>>
       THEN LogFlush(logSink, db, logSink.batch, "exited", "done", fault)
       ELSE /\ fault = "none"
            /\ logSink' = [logSink EXCEPT !.worker = "exited"]
            /\ UNCHANGED db
    /\ UNCHANGED <<cfg, unit, pool, handlerVarsOfRequests, ex, trace, metrics, cap, metricSink>>

\* main after the interrupt: server.Shutdown has returned or timed out, and
\* logWriter.Close() cancels the workers' context.
Shutdown ==
    /\ ~logSink.cancelled
    /\ logSink' = [logSink EXCEPT !.cancelled = TRUE]
    /\ UNCHANGED <<cfg, unit, pool, handlerVarsOfRequests, ex, trace, metrics, cap, metricSink, db>>

\* AsyncLogWriter.Close past its wait: the workers are done, or 30 seconds
\* have passed (timedOut); the backend is closed and Close returns.
LogCloseReturn(timedOut) ==
    /\ logSink.cancelled
    /\ ~logSink.closed
    /\ IF timedOut THEN logSink.worker = "running" ELSE logSink.worker = "exited"
    /\ logSink' = [logSink EXCEPT !.closed = TRUE,
                                  !.closedOn = IF timedOut THEN "timeout" ELSE "done"]
    /\ db' = [db EXCEPT !.closed = TRUE]
    /\ UNCHANGED <<cfg, unit, pool, handlerVarsOfRequests, ex, trace, metrics, cap, metricSink>>

\* The loop of saveBatch with every INSERT committed on its own: the rows
\* inserted before a failing one stay.
RECURSIVE InsertMetricsAutocommit(_, _, _, _, _)
InsertMetricsAutocommit(d, tx, batch, i, failAt) ==
    IF i > Len(batch)
    THEN [ok |-> TRUE, rows |-> tx]
    ELSE IF i = failAt \/ \A row \in d.request_logs : row.RequestID # batch[i].RequestID
    THEN [ok |-> FALSE, rows |-> tx]
    ELSE InsertMetricsAutocommit(d, tx (+) SetToBag({batch[i]}), batch, i + 1, failAt)

\* The loop of saveBatch inside its transaction, from the i-th metric on, and
\* tx.Commit(). tx is guardrail_metrics as the transaction sees it. An INSERT
\* fails when its request_id has no row in request_logs (foreign key) or the
\* database fails at it (failAt); the deferred Rollback then leaves the table
\* as it was before the transaction.
RECURSIVE InsertMetrics(_, _, _, _, _)
InsertMetrics(d, tx, batch, i, failAt) ==
    IF i > Len(batch)
    THEN [ok |-> TRUE, rows |-> tx]
    ELSE IF i = failAt \/ \A row \in d.request_logs : row.RequestID # batch[i].RequestID
    THEN [ok |-> FALSE, rows |-> d.guardrail_metrics]
    ELSE InsertMetrics(d, tx (+) SetToBag({batch[i]}), batch, i + 1, failAt)

\* MetricsWriter.saveBatch: PrepareContext and BeginTx fail on a closed pool;
\* then one INSERT per metric in one transaction.
saveBatch(d, batch, failAt) ==
    IF d.closed
    THEN [ok |-> FALSE, db |-> d]
    ELSE LET done == InsertMetrics(d, d.guardrail_metrics, batch, 1, failAt)
         IN [ok |-> done.ok, db |-> [d EXCEPT !.guardrail_metrics = done.rows]]

\* MetricsWriter.flushBatch
MetricsFlush(w, d, batch, after, on, failAt) ==
    LET saved == saveBatch(d, batch, failAt)
    IN /\ metricSink' = [w EXCEPT !.batch = <<>>,
                                  !.worker = after,
                                  !.failedBatches = IF saved.ok THEN @ ELSE @ + 1,
                                  !.flushes = Append(@, [batch |-> batch, on |-> on,
                                                         ok |-> saved.ok, panic |-> FALSE])]
       /\ db' = saved.db

\* MetricsWriter.worker, case metric := <-m.channel
MetricsWorkerReceive(failAt) ==
    /\ metricSink.worker = "running"
    /\ metricSink.channel # <<>>
    /\ LET w == [metricSink EXCEPT !.channel = Tail(@)]
           batch == Append(metricSink.batch, Head(metricSink.channel))
       IN IF BatchFull(batch, MetricsBatchSize)
          THEN MetricsFlush(w, db, batch, "running", "full", failAt)
          ELSE /\ failAt = 0
               /\ metricSink' = [w EXCEPT !.batch = batch]
               /\ UNCHANGED db
    /\ UNCHANGED <<cfg, unit, pool, handlerVarsOfRequests, ex, trace, metrics, cap, logSink>>

\* MetricsWriter.worker, case <-ticker.C
MetricsWorkerTick(failAt) ==
    /\ metricSink.worker = "running"
    /\ metricSink.batch # <<>>
    /\ MetricsFlush(metricSink, db, metricSink.batch, "running", "tick", failAt)
    /\ UNCHANGED <<cfg, unit, pool, handlerVarsOfRequests, ex, trace, metrics, cap, logSink>>

\* MetricsWriter.worker, case <-m.ctx.Done()
MetricsWorkerDone(failAt) ==
    /\ metricSink.worker = "running"
    /\ metricSink.cancelled
    /\ IF metricSink.batch # <<>>
       THEN MetricsFlush(metricSink, db, metricSink.batch, "exited", "done", failAt)
       ELSE /\ failAt = 0
            /\ metricSink' = [metricSink EXCEPT !.worker = "exited"]
            /\ UNCHANGED db
    /\ UNCHANGED <<cfg, unit, pool, handlerVarsOfRequests, ex, trace, metrics, cap, logSink>>

\* MetricsWriter.Close: m.cancel(). What follows, the wait for the workers
\* or for 30 seconds, changes nothing the writer or the database holds.
MetricsClose ==
    /\ ~metricSink.cancelled
    /\ metricSink' = [metricSink EXCEPT !.cancelled = TRUE]
    /\ UNCHANGED <<cfg, unit, pool, handlerVarsOfRequests, ex, trace, metrics, cap, logSink, db>>

\* ------------------------------------------------------ capture functions

\* Bodies are byte strings: sequences of one-character strings.
Bytes == {"a", "b"}

\* "\n... [TRUNCATED]", the marker captureBody and Write append.
TruncationMarker ==
    <<"\n", ".", ".", ".", " ", "[", "T", "R", "U", "N", "C", "A", "T", "E", "D", "]">>

\* io.LimitReader(body, n) read to its end: the first n bytes of the body, or
\* the whole body if it is shorter.
LimitReader(body, n) == SubSeq(body, 1, IF Len(body) < n THEN Len(body) ELSE n)

\* captureBody with a body that reads without error: what buf holds after
\* ReadFrom(limitReader), plus the marker when buf.Len() >= maxSize.
captureBodyMarkingOnlyCutBodies(body, maxSize) ==
    IF Len(body) > maxSize
      THEN LimitReader(body, maxSize) \o TruncationMarker
      ELSE body

captureBody(body, maxSize) ==
    LET buf == LimitReader(body, maxSize)
    IN  IF Len(buf) >= maxSize THEN buf \o TruncationMarker ELSE buf

\* The methods whose body Capture reads.
CapturesBodyOf(method) == method \in {"POST", "PUT", "PATCH"}

\* (w *captureResponseWriter).Write on the buffer w.body: the data is appended
\* whole if it fits, cut at the limit and followed by the marker if the
\* buffer was below the limit, and left out otherwise.
captureWrite(body, data, maxBodySize) ==
    IF Len(body) + Len(data) <= maxBodySize
      THEN body \o data
      ELSE IF Len(body) < maxBodySize
             THEN body \o SubSeq(data, 1, maxBodySize - Len(body)) \o TruncationMarker
             ELSE body

\* The sensitiveHeaders map of NewCaptureMiddleware and of SanitizeForLog.
sensitiveHeaders == {"authorization", "x-api-key", "cookie", "x-auth-token", "bearer"}

\* The header names a request may carry, in the spellings a map may hold.
RequestHeaderNames ==
    {"Authorization", "authorization", "X-API-KEY", "Cookie", "bearer", "Accept"}

\* strings.ToLower on the header names.
ToLower(key) ==
    CASE key = "Authorization" -> "authorization"
      [] key = "X-API-KEY" -> "x-api-key"
      [] key = "Cookie" -> "cookie"
      [] key = "Accept" -> "accept"
      [] OTHER -> key

\* The value a captured header map holds under a key: a string or an array.
StringValue(s) == [array |-> FALSE, values |-> <<s>>]
ArrayValue(values) == [array |-> TRUE, values |-> values]
Redacted == StringValue("[REDACTED]")

\* captureHeaders: the sentinel for a key whose lower-case form is sensitive,
\* the single value as a string or the values as an array otherwise.
captureHeaders(headers) ==
    [key \in DOMAIN headers |->
        IF ToLower(key) \in sensitiveHeaders
          THEN Redacted
          ELSE IF Len(headers[key]) = 1
                 THEN StringValue(headers[key][1])
                 ELSE ArrayValue(headers[key])]

\* SanitizeForLog: lowerKey is the key itself.
SanitizeForLog(headers) ==
    [key \in DOMAIN headers |->
        IF key \in sensitiveHeaders THEN Redacted ELSE headers[key]]

\* ------------------------------------------------- moderation guardrail

\* The categories of a moderation result.
Categories == {"hate", "violence"}

\* A ModerationGuardrail: whether it holds an API key, block_on_flag, and
\* its configured categories.
NoModeration == [apiKey |-> FALSE, blockOnFlag |-> FALSE, categories |-> {}]

\* What one Check meets: how extractUserMessage ends ("error", "empty" or
\* "ok"), how the call of the moderation API ends ("cancelled": the context
\* is done; "network"; "status": not 200; "decode"; "noresults"; "ok"), and
\* what the API's result says: Flagged, and the categories it marks true.
NoModerationCall == [extraction |-> "ok", api |-> "ok", Flagged |-> FALSE, hit |-> {}]

\* What Check returns: (result, err), with the result's Passed and the
\* "error" and "api_call" entries of its Metadata.
NoModerationResult ==
    [isNil |-> TRUE, err |-> "", Passed |-> FALSE, error |-> "", api_call |-> ""]

ModerationResultOf(passed, error, api_call) ==
    [isNil |-> FALSE, err |-> "", Passed |-> passed, error |-> error, api_call |-> api_call]

\* callModerationAPI: the error it returns, "" for none.
callModerationAPI(m, call) ==
    IF ~m.apiKey THEN "OpenAI API key not configured"
    ELSE CASE call.api \in {"cancelled", "network"} -> "API request failed"
           [] call.api = "status" -> "API returned status"
           [] call.api = "decode" -> "failed to decode response"
           [] call.api = "noresults" -> "no results in moderation response"
           [] OTHER -> ""

\* Whether Check takes the result as flagged: any configured category marked
\* true, or the result's Flagged when no category is configured.
ModerationFlagged(m, call) ==
    IF m.categories # {} THEN m.categories \cap call.hit # {} ELSE call.Flagged

\* A Check that blocks when the moderation API cannot be asked.
ModerationCheckFailingClosed(m, call) ==
    CASE call.extraction = "error" ->
            ModerationResultOf(TRUE, "unable to extract user message from request", "")
      [] call.extraction = "empty" -> ModerationResultOf(TRUE, "", "")
      [] callModerationAPI(m, call) # "" ->
            ModerationResultOf(FALSE, callModerationAPI(m, call), "failed")
      [] OTHER ->
            ModerationResultOf(~ModerationFlagged(m, call) \/ ~m.blockOnFlag, "", "success")

\* (m *ModerationGuardrail).Check
ModerationCheck(m, call) ==
    CASE call.extraction = "error" ->
            ModerationResultOf(TRUE, "unable to extract user message from request", "")
      [] call.extraction = "empty" -> ModerationResultOf(TRUE, "", "")
      [] callModerationAPI(m, call) # "" ->
            ModerationResultOf(TRUE, callModerationAPI(m, call), "failed")
      [] OTHER ->
            ModerationResultOf(~ModerationFlagged(m, call) \/ ~m.blockOnFlag, "", "success")

\* One call of a capture function: which function, whether it has run, its
\* inputs (method, the body sent or the response to write, maxBodySize, the
\* data not yet written, headers, logged) and what it
\* produced (captured, hasBody, downstream, client, body, stored).
EmptyMap == [key \in {} |-> <<>>]

NoUnit ==
    [fn |-> "none", pc |-> "done", method |-> "", sent |-> <<>>, maxBodySize |-> 0,
     captured |-> <<>>, hasBody |-> FALSE, downstream |-> <<>>,
     data |-> <<>>, client |-> <<>>, body |-> <<>>,
     headers |-> EmptyMap, logged |-> EmptyMap, stored |-> EmptyMap,
     guardrail |-> NoModeration, arg |-> NoModerationCall, ret |-> NoModerationResult]

\* Capture's request-body step: for POST, PUT and PATCH the captured string is
\* logged as RequestBody and r.Body is replaced by a reader over that string;
\* for the other methods r.Body is left as the client sent it.
CaptureRequestBody ==
    /\ unit.fn = "captureBody" /\ unit.pc = "call"
    /\ unit' =
         IF CapturesBodyOf(unit.method)
           THEN [unit EXCEPT !.pc = "done",
                             !.captured = captureBody(unit.sent, unit.maxBodySize),
                             !.hasBody = TRUE,
                             !.downstream = captureBody(unit.sent, unit.maxBodySize)]
           ELSE [unit EXCEPT !.pc = "done", !.downstream = unit.sent]
    /\ UNCHANGED <<gatewayVars, pool>>

\* One Write of the next n bytes of the response: to the client first, then
\* to the capture buffer.
ResponseWrite(n) ==
    /\ unit.fn = "Write" /\ unit.pc = "call"
    /\ n <= Len(unit.data)
    /\ unit' = [unit EXCEPT !.data = SubSeq(unit.data, n + 1, Len(unit.data)),
                            !.client = unit.client \o SubSeq(unit.data, 1, n),
                            !.body = captureWrite(unit.body, SubSeq(unit.data, 1, n),
                                                  unit.maxBodySize)]
    /\ UNCHANGED <<gatewayVars, pool>>

\* The handler returns: no further Write.
ResponseEnd ==
    /\ unit.fn = "Write" /\ unit.pc = "call"
    /\ unit.data = <<>>
    /\ unit' = [unit EXCEPT !.pc = "done"]
    /\ UNCHANGED <<gatewayVars, pool>>

CaptureHeaders ==
    /\ unit.fn = "captureHeaders" /\ unit.pc = "call"
    /\ unit' = [unit EXCEPT !.pc = "done", !.stored = captureHeaders(unit.headers)]
    /\ UNCHANGED <<gatewayVars, pool>>

SanitizeForLogCall ==
    /\ unit.fn = "SanitizeForLog" /\ unit.pc = "call"
    /\ unit' = [unit EXCEPT !.pc = "done", !.stored = SanitizeForLog(unit.logged)]
    /\ UNCHANGED <<gatewayVars, pool>>

\* One Check of the moderation guardrail.
ModerationCheckCall ==
    /\ unit.fn = "Check" /\ unit.pc = "call"
    /\ unit' = [unit EXCEPT !.pc = "done", !.ret = ModerationCheck(unit.guardrail, unit.arg)]
    /\ UNCHANGED <<gatewayVars, pool>>

\* ------------------------------------------ a sink with several workers

\* The goroutines that call WriteLog or Write at the same time.
Submitters == {"s1", "s2"}

SubmitterNumber(s) == IF s = "s1" THEN 1 ELSE 2

\* A sink of either kind, as NewAsyncLogWriter or NewMetricsWriter starts it:
\* the channel, the counters and the mutex that guards them, and Workers
\* goroutines, each with a batch of its own. Of every submitter: where its
\* call stands ("idle", "sent": the select sent the record, "full": the
\* select took its default case, "counting": it holds the mutex and has
\* loaded the counter), and how many of its calls have returned.
\* took and flushes keep what each worker dequeued and flushed, accepted the
\* records the channel took.
NoPool ==
    [kind |-> "none", channel |-> <<>>, mutex |-> "", total |-> 0, dropped |-> 0,
     failedBatches |-> 0, cancelled |-> FALSE,
     sub |-> [s \in {} |-> 0], workers |-> <<>>,
     accepted |-> {}, flushes |-> EmptyBag, db |-> EmptyStorage]

\* ---------------------------------------------------------- specification

POSTChat == [method |-> "POST", path |-> "/v1/chat/completions", body |-> "b"]

\* The wirings of main.go: no executor (guardrails disabled), or an executor
\* over an input and an output list, with or without a metrics writer.
Wirings(inputLists, outputLists) ==
    { [executor |-> TRUE, metricsWriter |-> mw,
       inputGuardrails |-> i, outputGuardrails |-> o] :
         mw \in BOOLEAN, i \in inputLists, o \in outputLists }

NoExecutor ==
    [executor |-> FALSE, metricsWriter |-> FALSE,
     inputGuardrails |-> <<>>, outputGuardrails |-> <<>>]

\* The guardrail lists the whole-handler specification is run with.
HandlerInputLists == {<<>>, <<0>>, <<1, 0>>, <<0, 0>>}
HandlerOutputLists == {<<>>, <<0>>}

FreshGateway ==
    /\ hpc = [r \in Requests |-> IF request[r] = NoRequest THEN "idle" ELSE "start"]
    /\ requestBody = [r \in Requests |-> ""]
    /\ forwardBody = [r \in Requests |-> request[r].body]
    /\ hres = [r \in Requests |-> NoExecutionResult]
    /\ upstream = [r \in Requests |-> NoUpstream]
    /\ responseBody = [r \in Requests |-> ""]
    /\ client = [r \in Requests |-> NoResponse]
    /\ blockCtx = [r \in Requests |-> NoBlock]
    /\ providerCalls = [r \in Requests |-> 0]
    /\ executed = [r \in Requests |-> {}]
    /\ rid = [r \in Requests |-> NoUUID]
    /\ ex = [r \in Requests |-> IdleFrame]
    /\ trace = [r \in Requests |-> {}]
    /\ metrics = [r \in Requests |-> EmptyBag]
    /\ logSink = NewAsyncLogWriter
    /\ metricSink = NewMetricsWriter
    /\ db = EmptyStorage

Fresh == FreshGateway /\ unit = NoUnit /\ pool = NoPool

\* One request through the whole of ServeHTTP: any client request, any wiring
\* over the handler lists.
Init ==
    /\ cfg \in {NoExecutor} \cup Wirings(HandlerInputLists, HandlerOutputLists)
    /\ request \in [Requests -> ClientRequests \cup {NoRequest}]
    /\ request["r1"] # NoRequest
    /\ request["r2"] = NoRequest
    /\ cap = [r \in Requests |-> NoCapture]
    /\ Fresh

\* The steps of one executeParallel call whose Checks end in one of outcomes.
ExecutorSteps(r, outcomes) ==
    \/ SpawnGroup(r)
    \/ \E k \in 1..MaxGuardrails : TaskStart(r, k)
    \/ \E k \in 1..MaxGuardrails, o \in outcomes : CheckReturn(r, k, o)
    \/ \E k \in 1..MaxGuardrails : TaskRecord(r, k)
    \/ \E k \in 1..MaxGuardrails : TaskReturn(r, k)
    \/ GroupWait(r)

ExecutorNext(r) == ExecutorSteps(r, Outcomes) \/ Deadline(r)

InputNext(r) ==
    \/ \E readFails \in BOOLEAN : Route(r, readFails)
    \/ InputGuardrails(r)
    \/ InputResult(r)

OutputNext(r) ==
    \/ \E outcome \in {"error", "unreadable"} : ProxyRequest(r, outcome, NoUpstream)
    \/ \E resp \in UpstreamResponses : ProxyRequest(r, "ok", resp)
    \/ OutputGuardrails(r)
    \/ OutputResult(r)
    \/ OverrideResponse(r)
    \/ Respond(r)

Next == \E r \in Requests : InputNext(r) \/ ExecutorNext(r) \/ OutputNext(r)

Spec == Init /\ [][Next]_vars

\* One ExecuteInput call over every guardrail list within the bounds.
InitExec ==
    /\ cfg \in Wirings(GuardrailLists, {<<>>})
    /\ request = [r \in Requests |-> IF r = "r1" THEN POSTChat ELSE NoRequest]
    /\ cap = [r \in Requests |-> NoCapture]
    /\ Fresh

NextExec == \E r \in Requests : InputNext(r) \/ ExecutorNext(r)

SpecExec == InitExec /\ [][NextExec]_vars

\* Two requests in their ExecuteInput calls at once, each over a group of two,
\* under an executor wired without a metrics writer.
\* Request r1 runs every step of the executor; the other request's Checks pass,
\* reject or give in to a cancelled context, and its deadline does not expire.
InitConc ==
    /\ cfg \in {c \in Wirings({<<0, 0>>}, {<<>>}) : ~c.metricsWriter}
    /\ request = [r \in Requests |-> POSTChat]
    /\ cap = [r \in Requests |-> NoCapture]
    /\ Fresh

NextConc ==
    \/ \E r \in Requests : InputNext(r)
    \/ ExecutorNext("r1")
    \/ ExecutorSteps("r2", {"pass", "reject", "ctxerr"})

SpecConc == InitConc /\ [][NextConc]_vars

\* The gateway with storage configured: the capture middleware around
\* ServeHTTP, the log writer, the metrics writer and the database, up to and
\* through shutdown. Either two requests at once with guardrails disabled, or
\* one request under an executor with a metrics writer and an input group of
\* two guardrails whose Checks pass or reject. The database fails a call only
\* for what the call asks of it.
SinkUpstreamResponses ==
    {resp \in UpstreamResponses :
        resp.StatusCode = 200 /\ (resp.Header = JsonHeaders \/ resp.Body = GzipOfUp)}

InitSink ==
    /\ \/ /\ cfg = NoExecutor
          /\ request = [r \in Requests |-> POSTChat]
       \/ /\ cfg \in {c \in Wirings({<<0, 0>>}, {<<>>}) : c.metricsWriter}
          /\ request = [r \in Requests |-> IF r = "r1" THEN POSTChat ELSE NoRequest]
    /\ cap = [r \in Requests |-> IF request[r] = NoRequest THEN NoCapture ELSE Arrived]
    /\ Fresh

NextSink ==
    \/ \E r \in Requests : Alive /\ CaptureBegin(r)
    \/ \E r \in Requests, readFails \in BOOLEAN : Alive /\ Route(r, readFails)
    \/ \E r \in Requests : Alive /\ InputGuardrails(r)
    \/ \E r \in Requests : Alive /\ ExecutorSteps(r, {"pass", "reject"})
    \/ \E r \in Requests : Alive /\ InputResult(r)
    \/ \E r \in Requests : Alive /\ ProxyRequest(r, "error", NoUpstream)
    \/ \E r \in Requests, resp \in SinkUpstreamResponses : Alive /\ ProxyRequest(r, "ok", resp)
    \/ \E r \in Requests : Alive /\ OutputGuardrails(r)
    \/ \E r \in Requests : Alive /\ OutputResult(r)
    \/ \E r \in Requests : Alive /\ Respond(r)
    \/ \E r \in Requests : Alive /\ CaptureEnd(r)
    \/ Alive /\ LogWorkerReceive("none")
    \/ Alive /\ LogWorkerTick("none")
    \/ Alive /\ LogWorkerDone("none")
    \/ Alive /\ MetricsWorkerReceive(0)
    \/ Alive /\ MetricsWorkerTick(0)
    \/ Alive /\ Shutdown
    \/ \E timedOut \in BOOLEAN : Alive /\ LogCloseReturn(timedOut)

SpecSink == InitSink /\ [][NextSink]_vars

\* The two writers on their own, under any caller: up to MaxSubmits records
\* are submitted to each, the database may fail any call, and Close may be
\* called on either writer at any time. The n-th log record is that of the
\* n-th request; a metric names any of these requests.
LogRecord(n) ==
    [ID |-> NewUUID("log", n), RequestID |-> NewUUID("capture", n),
     Endpoint |-> POSTChat.path, Method |-> POSTChat.method,
     StatusCode |-> 200, ResponseBody |-> "up"]

MetricRecord(n, of) ==
    [ID |-> <<"input", n>>, RequestID |-> NewUUID("capture", of), GuardrailName |-> 1,
     Layer |-> "input", Priority |-> 0, Passed |-> TRUE, Error |-> "",
     OriginalResponse |-> "", OverrideResponse |-> "", ResponseOverridden |-> FALSE]

\* A caller's WriteLog(requestLog).
SubmitLog ==
    /\ logSink.totalLogs + logSink.droppedLogs < MaxSubmits
    /\ logSink' = WriteLog(logSink, LogRecord(logSink.totalLogs + logSink.droppedLogs + 1))
    /\ UNCHANGED <<cfg, unit, pool, handlerVarsOfRequests, ex, trace, metrics, cap, metricSink, db>>

\* A caller's Write(metric).
SubmitMetric(of) ==
    /\ metricSink.totalWrites + metricSink.droppedWrites < MaxSubmits
    /\ metricSink' = Write(metricSink,
                           MetricRecord(metricSink.totalWrites + metricSink.droppedWrites + 1, of))
    /\ UNCHANGED <<cfg, unit, pool, handlerVarsOfRequests, ex, trace, metrics, cap, logSink, db>>

InitWriters ==
    /\ cfg = NoExecutor
    /\ request = [r \in Requests |-> NoRequest]
    /\ cap = [r \in Requests |-> NoCapture]
    /\ Fresh

NextWriters ==
    \/ SubmitLog
    \/ \E of \in 1..MaxSubmits : SubmitMetric(of)
    \/ \E fault \in Faults : LogWorkerReceive(fault)
    \/ \E fault \in Faults : LogWorkerTick(fault)
    \/ \E fault \in Faults : LogWorkerDone(fault)
    \/ Shutdown
    \/ \E timedOut \in BOOLEAN : LogCloseReturn(timedOut)
    \/ \E failAt \in 0..MetricsBatchSize : MetricsWorkerReceive(failAt)
    \/ \E failAt \in 0..MetricsBatchSize : MetricsWorkerTick(failAt)
    \/ \E failAt \in 0..MetricsBatchSize : MetricsWorkerDone(failAt)
    \/ MetricsClose

SpecWriters == InitWriters /\ [][NextWriters]_vars

\* The writers with workers that are scheduled: a worker whose select has a
\* record to receive, a tick with a batch to flush, or a cancelled context to
\* see, takes that case in the end.
SpecWritersFair ==
    /\ SpecWriters
    /\ WF_vars(\E fault \in Faults : LogWorkerReceive(fault))
    /\ WF_vars(\E fault \in Faults : LogWorkerTick(fault))
    /\ WF_vars(\E fault \in Faults : LogWorkerDone(fault))
    /\ WF_vars(\E failAt \in 0..MetricsBatchSize : MetricsWorkerReceive(failAt))
    /\ WF_vars(\E failAt \in 0..MetricsBatchSize : MetricsWorkerTick(failAt))
    /\ WF_vars(\E failAt \in 0..MetricsBatchSize : MetricsWorkerDone(failAt))

\* The capture functions on their own: a request body of any length around
\* the limit, a response written in any number of Writes, a header map in any
\* spelling.
SeqsUpTo(S, n) == UNION { [1..k -> S] : k \in 0..n }

RequestBodies == SeqsUpTo(Bytes, MaxCaptureSize + 1)

ResponseData == { [i \in 1..n |-> IF i % 2 = 1 THEN "a" ELSE "b"] : n \in 0..(MaxCaptureSize + 2) }

HeaderValues == {<<"s">>, <<"t">>, <<"s", "t">>}

HeaderMaps ==
    UNION { [names -> HeaderValues] :
              names \in { n \in SUBSET RequestHeaderNames : Cardinality(n) \in 1..MaxHeaders } }

CapturedHeaderMaps ==
    UNION { [names -> {StringValue("s"), StringValue("t"), ArrayValue(<<"s", "t">>)}] :
              names \in { n \in SUBSET RequestHeaderNames : Cardinality(n) = 1 } }

Units ==
    { [NoUnit EXCEPT !.fn = "captureBody", !.pc = "call",
                     !.method = m, !.sent = b, !.maxBodySize = c, !.downstream = b] :
         m \in {"GET", "POST", "PUT", "PATCH"}, b \in RequestBodies, c \in 1..MaxCaptureSize }
    \cup { [NoUnit EXCEPT !.fn = "Write", !.pc = "call", !.sent = d, !.data = d,
                         !.maxBodySize = c] :
             d \in ResponseData, c \in 1..MaxCaptureSize }
    \cup { [NoUnit EXCEPT !.fn = "captureHeaders", !.pc = "call", !.headers = h] :
             h \in HeaderMaps }
    \cup { [NoUnit EXCEPT !.fn = "SanitizeForLog", !.pc = "call", !.logged = h] :
             h \in CapturedHeaderMaps }

InitCapture ==
    /\ cfg = NoExecutor
    /\ request = [r \in Requests |-> NoRequest]
    /\ cap = [r \in Requests |-> NoCapture]
    /\ FreshGateway
    /\ pool = NoPool
    /\ unit \in Units

NextCapture ==
    \/ CaptureRequestBody
    \/ \E n \in 0..(MaxCaptureSize + 2) : ResponseWrite(n)
    \/ ResponseEnd
    \/ CaptureHeaders
    \/ SanitizeForLogCall

SpecCapture == InitCapture /\ [][NextCapture]_vars

\* The moderation guardrail on its own: any configuration, any outcome of the
\* extraction and of the API call, any result of the API.
ModerationGuardrails ==
    [apiKey : BOOLEAN, blockOnFlag : BOOLEAN, categories : SUBSET Categories]

ModerationCalls ==
    [extraction : {"error", "empty", "ok"},
     api : {"cancelled", "network", "status", "decode", "noresults", "ok"},
     Flagged : BOOLEAN, hit : SUBSET Categories]

InitModeration ==
    /\ cfg = NoExecutor
    /\ request = [r \in Requests |-> NoRequest]
    /\ cap = [r \in Requests |-> NoCapture]
    /\ FreshGateway
    /\ pool = NoPool
    /\ unit \in { [NoUnit EXCEPT !.fn = "Check", !.pc = "call", !.guardrail = m, !.arg = c] :
                     m \in ModerationGuardrails, c \in ModerationCalls }

NextModeration ==
    \/ ModerationCheckCall

SpecModeration == InitModeration /\ [][NextModeration]_vars

\* ------------------------------------ a sink with several workers: steps

NewPool(kind) ==
    [NoPool EXCEPT
       !.kind = kind,
       !.sub = [s \in Submitters |-> [pc |-> "idle", sent |-> FALSE, loaded |-> 0, returned |-> 0]],
       !.workers = [i \in 1..Workers |-> [state |-> "running", batch |-> <<>>, took |-> <<>>]],
       !.db = [EmptyStorage EXCEPT !.request_logs =
                  IF kind = "metrics" THEN {RequestLogRow(LogRecord(1))} ELSE {}]]

PoolBufferSize(p) == IF p.kind = "log" THEN LogBufferSize ELSE MetricsBufferSize
PoolBatchSize(p) == IF p.kind = "log" THEN LogBatchSize ELSE MetricsBatchSize

\* The calls made so far, returned or not.
PoolCalls(p) ==
    LET begun(s) == p.sub[s].returned + (IF p.sub[s].pc = "idle" THEN 0 ELSE 1)
    IN begun("s1") + begun("s2")

\* The record of a submitter's next call.
PoolRecord(p, s) ==
    LET n == (SubmitterNumber(s) - 1) * MaxSubmits + p.sub[s].returned + 1
    IN IF p.kind = "log" THEN LogRecord(n) ELSE MetricRecord(n, 1)

\* mutex.Lock() returns only when no goroutine holds the mutex.
MutexAlwaysFree(p) == TRUE

MutexFree(p) == p.mutex = ""

\* WriteLog / Write, the select: the record goes on the channel when it has
\* room, otherwise the default case is taken.
PoolSelect(s) ==
    /\ pool.kind # "none"
    /\ pool.sub[s].pc = "idle"
    /\ PoolCalls(pool) < MaxSubmits
    /\ pool' = IF Len(pool.channel) < PoolBufferSize(pool)
               THEN [pool EXCEPT !.channel = Append(@, PoolRecord(pool, s)),
                                 !.accepted = @ \cup {PoolRecord(pool, s)},
                                 !.sub[s].pc = "select", !.sub[s].sent = TRUE]
               ELSE [pool EXCEPT !.sub[s].pc = "select", !.sub[s].sent = FALSE]
    /\ UNCHANGED <<gatewayVars, unit>>

\* mutex.Lock() and the load of totalLogs++ / droppedLogs++.
PoolLock(s) ==
    /\ pool.kind # "none"
    /\ pool.sub[s].pc = "select"
    /\ MutexFree(pool)
    /\ pool' = [pool EXCEPT !.mutex = s,
                            !.sub[s].pc = "counting",
                            !.sub[s].loaded = IF pool.sub[s].sent THEN pool.total
                                              ELSE pool.dropped]
    /\ UNCHANGED <<gatewayVars, unit>>

\* The store of the increment, mutex.Unlock(), and the return of the call.
PoolUnlock(s) ==
    /\ pool.kind # "none"
    /\ pool.sub[s].pc = "counting"
    /\ pool' = [pool EXCEPT
                  !.mutex = IF @ = s THEN "" ELSE @,
                  !.total = IF pool.sub[s].sent THEN pool.sub[s].loaded + 1 ELSE @,
                  !.dropped = IF pool.sub[s].sent THEN @ ELSE pool.sub[s].loaded + 1,
                  !.sub[s].pc = "idle",
                  !.sub[s].returned = @ + 1]
    /\ UNCHANGED <<gatewayVars, unit>>

\* batch = batch[:0] left out.
KeepBatch(batch) == batch

\* batch = batch[:0]
ResetBatch(batch) == <<>>

\* SaveRequestLogsBatch or saveBatch on the sink's storage; fault: the
\* database fails the statement.
PoolSave(p, batch, fault) ==
    IF p.kind = "log"
    THEN LET saved == SaveRequestLogsBatch(p.db, batch, IF fault THEN "exec" ELSE "none")
         IN [ok |-> saved.ok, db |-> saved.db]
    ELSE saveBatch(p.db, batch, IF fault THEN 1 ELSE 0)

\* flushBatch by worker i, with failedBatches++ under the mutex when the save
\* failed; the worker goes on in the given state with the batch it keeps.
PoolFlush(p, i, batch, state, keeps, fault) ==
    LET saved == PoolSave(p, batch, fault)
    IN /\ saved.ok \/ MutexFree(p)
       /\ pool' = [p EXCEPT !.db = saved.db,
                            !.failedBatches = IF saved.ok THEN @ ELSE @ + 1,
                            !.flushes = @ (+) SetToBag({[worker |-> i, batch |-> batch,
                                                         ok |-> saved.ok]}),
                            !.workers[i].state = state,
                            !.workers[i].batch = keeps]

\* worker i, case record := <-channel
PoolWorkerReceive(i, fault) ==
    /\ pool.kind # "none"
    /\ pool.workers[i].state = "running"
    /\ pool.channel # <<>>
    /\ LET p == [pool EXCEPT !.channel = Tail(@),
                             !.workers[i].took = Append(@, Head(pool.channel))]
           batch == Append(pool.workers[i].batch, Head(pool.channel))
       IN IF BatchFull(batch, PoolBatchSize(pool))
          THEN PoolFlush(p, i, batch, "running", ResetBatch(batch), fault)
          ELSE /\ ~fault
               /\ pool' = [p EXCEPT !.workers[i].batch = batch]
    /\ UNCHANGED <<gatewayVars, unit>>

\* worker i, case <-ticker.C
PoolWorkerTick(i, fault) ==
    /\ pool.kind # "none"
    /\ pool.workers[i].state = "running"
    /\ pool.workers[i].batch # <<>>
    /\ PoolFlush(pool, i, pool.workers[i].batch, "running",
                 ResetBatch(pool.workers[i].batch), fault)
    /\ UNCHANGED <<gatewayVars, unit>>

\* worker i, case <-ctx.Done(): the last flush, and the return.
PoolWorkerDone(i, fault) ==
    /\ pool.kind # "none"
    /\ pool.workers[i].state = "running"
    /\ pool.cancelled
    /\ IF pool.workers[i].batch # <<>>
       THEN PoolFlush(pool, i, pool.workers[i].batch, "exited", <<>>, fault)
       ELSE /\ ~fault
            /\ pool' = [pool EXCEPT !.workers[i].state = "exited"]
    /\ UNCHANGED <<gatewayVars, unit>>

\* Close: w.cancel()
PoolClose ==
    /\ pool.kind # "none"
    /\ ~pool.cancelled
    /\ pool' = [pool EXCEPT !.cancelled = TRUE]
    /\ UNCHANGED <<gatewayVars, unit>>

InitPool ==
    /\ cfg = NoExecutor
    /\ request = [r \in Requests |-> NoRequest]
    /\ cap = [r \in Requests |-> NoCapture]
    /\ FreshGateway
    /\ unit = NoUnit
    /\ pool \in {NewPool("log"), NewPool("metrics")}

NextPool ==
    \/ \E s \in Submitters : PoolSelect(s)
    \/ \E s \in Submitters : PoolLock(s)
    \/ \E s \in Submitters : PoolUnlock(s)
    \/ \E i \in 1..Workers, fault \in BOOLEAN : PoolWorkerReceive(i, fault)
    \/ \E i \in 1..Workers, fault \in BOOLEAN : PoolWorkerTick(i, fault)
    \/ \E i \in 1..Workers, fault \in BOOLEAN : PoolWorkerDone(i, fault)
    \/ PoolClose

SpecPool == InitPool /\ [][NextPool]_vars

\* ------------------------------------------------ properties of the executor

\* The guardrail list a call of the executor runs over: ExecuteInput runs
\* e.inputGuardrails, ExecuteOutput and ExecuteOutputWithResponses run
\* e.outputGuardrails.
ListOf(call) == IF call = "input" THEN cfg.inputGuardrails ELSE cfg.outputGuardrails

\* The guardrails whose own Check returned a rejection or an error in a call.
Failed(r, call) ==
    {e[3] : e \in {x \in trace[r] : x[2] = call /\ OutcomeFails(x[1])}}

\* The reason a failed guardrail gave: its rejection reason, its own error, or
\* the error of the context it observed.
ReasonsOf(r, call, name) ==
    {RejectReason(name) : e \in {x \in trace[r] : x = <<"reject", call, name>>}}
    \cup {OwnError(name) : e \in {x \in trace[r] : x = <<"error", call, name>>}}
    \cup {c \in {Canceled, DeadlineExceeded} : <<"ctxerr", call, name>> \in trace[r]}

\* How many metrics a task has handed to the metrics writer.
Submitted(r, id) ==
    BagCardinality([m \in {x \in BagToSet(metrics[r]) : x.ID = id} |->
                        CopiesIn(m, metrics[r])])

\* C1: priority groups are visited in ascending order of the priority value
\* and one after the other: a task of a guardrail is spawned, and its Check is
\* invoked, only when every task of every guardrail of a lower priority value
\* in the same call has returned.
C1_AscendingPriorityGroups ==
    \A r \in Requests : \A e \in trace[r] :
        e[1] \in {"spawn", "invoke"} =>
            \A j \in DOMAIN ListOf(e[2]) :
                ListOf(e[2])[j] < ListOf(e[2])[e[3]] => <<"return", e[2], j>> \in trace[r]

\* A Check has been invoked in a group that is not the first of its list.
C1_Witness ==
    \E r \in Requests : \E e \in trace[r] :
        /\ e[1] = "invoke"
        /\ \E j \in DOMAIN ListOf(e[2]) : ListOf(e[2])[j] < ListOf(e[2])[e[3]]

\* C2: once a guardrail's Check has returned a rejection or an error, no Check
\* of a guardrail of a higher priority value is ever invoked in that call, and
\* the call's ExecutionResult has Passed = false, names a guardrail that failed
\* and carries the reason that guardrail gave.
C2_FailureStopsLaterGroups ==
    \A r \in Requests :
        /\ \A e \in trace[r] :
              OutcomeFails(e[1]) =>
                 \A j \in DOMAIN ListOf(e[2]) :
                    ListOf(e[2])[j] > ListOf(e[2])[e[3]] =>
                        <<"invoke", e[2], j>> \notin trace[r]
        /\ (ex[r].state = "done" /\ Failed(r, ex[r].call) # {}) =>
              /\ ~ex[r].result.Passed
              /\ ex[r].result.FailedGuardrail \in Failed(r, ex[r].call)
              /\ ex[r].result.FailureReason \in
                    ReasonsOf(r, ex[r].call, ex[r].result.FailedGuardrail)

\* A call has ended on a failure in a group that has a later group behind it.
C2_Witness ==
    \E r \in Requests :
        /\ ex[r].state = "done"
        /\ \E n \in Failed(r, ex[r].call) : \E j \in DOMAIN ListOf(ex[r].call) :
              ListOf(ex[r].call)[j] > ListOf(ex[r].call)[n]

\* C3: with a metrics writer configured, every task that has returned has
\* handed exactly one metric to the writer, and no task ever hands in more
\* than one.
C3_OneMetricPerTask ==
    \A r \in Requests : cfg.metricsWriter =>
        \A e \in trace[r] :
            /\ e[1] = "return" => Submitted(r, <<e[2], e[3]>>) = 1
            /\ e[1] = "spawn" => Submitted(r, <<e[2], e[3]>>) <= 1

\* C4: the guardrail an ExecutionResult blames is one whose own Check returned
\* a rejection or an error in that call, whenever any did, and every guardrail
\* whose Check failed has handed in a metric with Passed = false and none with
\* Passed = true.
C4_BlamedGuardrailFailed ==
    \A r \in Requests :
        /\ (ex[r].state = "done" /\ ex[r].result.FailedGuardrail # NoName) =>
              ex[r].result.FailedGuardrail \in Failed(r, ex[r].call)
        /\ (ex[r].state = "done" /\ Failed(r, ex[r].call) # {}) =>
              ex[r].result.FailedGuardrail \in Failed(r, ex[r].call)
        /\ cfg.metricsWriter =>
              \A e \in trace[r] : OutcomeFails(e[1]) =>
                 /\ \E m \in BagToSet(metrics[r]) : m.ID = <<e[2], e[3]>> /\ ~m.Passed
                 /\ \A m \in BagToSet(metrics[r]) : m.ID = <<e[2], e[3]>> => ~m.Passed

\* A call has ended in which two guardrails of one priority both failed.
C4_Witness ==
    \E r \in Requests :
        /\ cfg.metricsWriter
        /\ ex[r].state = "done"
        /\ \E n, m \in Failed(r, ex[r].call) :
              n # m /\ ListOf(ex[r].call)[n] = ListOf(ex[r].call)[m]

\* C5: a group's context is cancelled only after a failure has been recorded
\* in that group; once a failed task has returned, the group's context is done
\* for the siblings still running; and the context of a request's group turns
\* cancelled only in a step in which one of that request's own failed tasks
\* returns, never through a task of another request.
C5_CancellationScope ==
    /\ [](\A r \in Requests :
            /\ ex[r].gctx = Canceled => ex[r].firstFailure.set
            /\ (\E k \in DOMAIN ex[r].pc :
                   ex[r].pc[k] = "returned" /\ OutcomeFails(ex[r].outcome[k]))
                  => ex[r].gctx # "")
    /\ [][\A r \in Requests :
            /\ (ex[r].gctx = "" /\ ex'[r].gctx = Canceled) =>
                  \E k \in DOMAIN ex[r].pc :
                     /\ ex[r].pc[k] = "recorded"
                     /\ OutcomeFails(ex[r].outcome[k])
                     /\ ex'[r].pc = [ex[r].pc EXCEPT ![k] = "returned"]
            /\ (ex[r].gctx = "" /\ ex'[r].gctx = DeadlineExceeded) =>
                  ex'[r].timedOut]_vars

\* One request's group is cancelled with a sibling still in its Check while
\* another request's tasks are in their Checks under a live context.
C5_Witness ==
    /\ ex["r1"].gctx = Canceled
    /\ \E k \in DOMAIN ex["r1"].pc : ex["r1"].pc[k] = "checking"
    /\ ex["r2"].gctx = ""
    /\ \A k \in DOMAIN ex["r2"].pc : ex["r2"].pc[k] = "checking"
    /\ ex["r2"].group # <<>>

\* C6: when the deadline expired with Checks running and no guardrail failed
\* before, and every running Check gave in to the expired context, the call's
\* ExecutionResult has Passed = false, blames no guardrail and carries the
\* generic reason, and every Check that was running has handed in a metric that
\* records its error.
C6_DeadlineBlamesNoGuardrail ==
    \A r \in Requests :
        ( /\ ex[r].state = "done"
          /\ ex[r].timedOut /\ ex[r].deadlineClean
          /\ ex[r].deadlineInFlight # {}
          /\ \A n \in ex[r].deadlineInFlight : <<"ctxerr", ex[r].call, n>> \in trace[r] )
        => /\ ~ex[r].result.Passed
           /\ ex[r].result.FailedGuardrail = NoName
           /\ ex[r].result.FailureReason = "Guardrail execution failed: " \o DeadlineExceeded
           /\ cfg.metricsWriter =>
                 \A n \in ex[r].deadlineInFlight :
                    \E m \in BagToSet(metrics[r]) :
                       m.ID = <<ex[r].call, n>> /\ m.Error # "" /\ ~m.Passed

\* ------------------------------------------------- properties of the handler

\* The refusal document of a path: the legacy completion shape for
\* /v1/completions, the chat completion shape for every other path.
RefusalFor(path) ==
    IF path = "/v1/completions" THEN LegacyCompletionResponse ELSE ChatCompletionResponse

\* C7: when a guardrail evaluation ended without a decision of any guardrail
\* because the deadline expired, the client is answered with status 500 and
\* the structured JSON error envelope.
C7_ExecutorErrorAnswered500 ==
    \A r \in Requests :
        ( /\ hpc[r] = "done"
          /\ \E c \in executed[r] : ~c[2]
          /\ hres[r].FailedGuardrail = NoName
          /\ hres[r].FailureReason = "Guardrail execution failed: " \o DeadlineExceeded )
        => /\ client[r].status = 500
           /\ client[r].header["Content-Type"] = <<"application/json">>
           /\ client[r].body \in
                 {returnGuardrailError(NoResponse, t[1], t[2], 500).body :
                     t \in {<<"input_guardrails_error", "Failed to execute input guardrails">>,
                            <<"output_guardrails_error", "Failed to execute output guardrails">>}}

\* C8: with input guardrails configured, the provider has been invoked for a
\* request only if ExecuteInput ran on that request and returned Passed = true.
C8_ProviderOnlyAfterInputPassed ==
    \A r \in Requests :
        (cfg.executor /\ cfg.inputGuardrails # <<>> /\ providerCalls[r] > 0)
        => <<"input", TRUE>> \in executed[r]

\* C9: a request whose input guardrails did not pass never has the provider
\* invoked nor any output guardrail run, and it has ended with the refusal
\* document as its response.
C9_InputBlockEndsRequest ==
    \A r \in Requests :
        <<"input", FALSE>> \in executed[r] =>
            /\ providerCalls[r] = 0
            /\ \A e \in trace[r] : e[2] = "input"
            /\ \A c \in executed[r] : c[1] = "input"
            /\ ex[r].state = "idle"
            /\ hpc[r] = "done"
            /\ client[r].written
            /\ client[r].body = RefusalFor(request[r].path)

\* A request was refused at the input layer while output guardrails are configured.
C9_Witness ==
    \E r \in Requests :
        /\ <<"input", FALSE>> \in executed[r]
        /\ cfg.outputGuardrails # <<>>
        /\ hpc[r] = "done"

C11_PassThroughBytes ==
    \A r \in Requests :
        ( /\ hpc[r] = "done"
          /\ upstream[r] # NoUpstream
          /\ \A c \in executed[r] : c[2] )
        => /\ client[r].written
           /\ client[r].status = upstream[r].StatusCode
           /\ client[r].body = upstream[r].Body

\* A gzip-compressed upstream answer went through while an output guardrail
\* passed it with modified content.
C11_Witness ==
    \E r \in Requests :
        /\ hpc[r] = "done"
        /\ upstream[r].Body = GzipOfUp
        /\ <<"output", TRUE>> \in executed[r]
        /\ \E e \in trace[r] : e[1] = "modify" /\ e[2] = "output"

\* C12: when an output guardrail blocked a gzip-encoded upstream response, the
\* client's response is the refusal document with the single Content-Type
\* application/json, a single Content-Length equal to the refusal's length and
\* no Content-Encoding header.
C12_GzipBlockUncompressed ==
    \A r \in Requests :
        ( /\ hpc[r] = "done"
          /\ <<"output", FALSE>> \in executed[r]
          /\ upstream[r].Header["Content-Encoding"] = <<"gzip">> )
        => /\ client[r].body = RefusalFor(request[r].path)
           /\ client[r].header["Content-Type"] = <<"application/json">>
           /\ client[r].header["Content-Length"] = <<ToString(Len(client[r].body))>>
           /\ client[r].header["Content-Encoding"] = <<>>

\* C13: once the refusal has been substituted for an upstream response, every
\* output-layer metric with Passed = false handed in for that request carries
\* both bodies and has ResponseOverridden = true.
C13_FailedOutputMetricsCarryBodies ==
    \A r \in Requests :
        ( /\ cfg.metricsWriter
          /\ hpc[r] = "done"
          /\ <<"output", FALSE>> \in executed[r] )
        => \A m \in BagToSet(metrics[r]) :
              (m.Layer = "output" /\ ~m.Passed) =>
                 /\ m.ResponseOverridden
                 /\ m.OriginalResponse # ""
                 /\ m.OverrideResponse # ""

\* C14: a metric has ResponseOverridden = true exactly when it carries both
\* bodies, its layer is output and Passed is false; a metric of the input
\* layer and a passing metric carry neither body.
C14_OverriddenIffBodies ==
    \A r \in Requests : \A m \in BagToSet(metrics[r]) :
        /\ m.ResponseOverridden <=>
              ( /\ m.OriginalResponse # "" /\ m.OverrideResponse # ""
                /\ m.Layer = "output" /\ ~m.Passed )
        /\ (m.Layer = "input" \/ m.Passed) =>
              (m.OriginalResponse = "" /\ m.OverrideResponse = "")

\* The rerun over the output guardrails has handed in a metric with both
\* bodies, after a passing input guardrail and the first, failing, pass over
\* the output guardrails handed in metrics without them.
C14_Witness ==
    \E r \in Requests :
        /\ \E m \in BagToSet(metrics[r]) : m.ResponseOverridden
        /\ \E m \in BagToSet(metrics[r]) : m.Layer = "input" /\ m.Passed
        /\ \E m \in BagToSet(metrics[r]) : m.ID[1] = "output" /\ ~m.Passed

\* C15: when an output guardrail blocked a gzip-encoded upstream response, a
\* metric that records the override has the decompressed upstream body, the
\* content the guardrail evaluated, as its original response and the refusal
\* written to the client as its override response.
C15_OverrideMetricBodies ==
    \A r \in Requests :
        ( /\ hpc[r] = "done"
          /\ <<"output", FALSE>> \in executed[r]
          /\ upstream[r].Header["Content-Encoding"] = <<"gzip">>
          /\ decompressGzip(upstream[r].Body).ok )
        => \A m \in BagToSet(metrics[r]) :
              m.ResponseOverridden =>
                 /\ m.OriginalResponse = decompressGzip(upstream[r].Body).data
                 /\ m.OriginalResponse = responseBody[r]
                 /\ m.OverrideResponse = client[r].body

\* ------------------------------------------ properties of capture and sinks

\* The rows of request_logs stored under a request id.
LogRows(requestID) == {row \in db.request_logs : row.RequestID = requestID}

\* C16: for a request a guardrail blocked, the log record Capture submitted,
\* and every row stored for the request, has guardrails_passed = false and
\* failed_guardrail_name equal to the name in the handler's block context.
C16_BlockRecordedInLog ==
    \A r \in Requests :
        (cap[r].pc = "logged" /\ blockCtx[r].Blocked)
        => \A row \in {RequestLogRow(cap[r].log)} \cup LogRows(cap[r].requestID) :
              /\ ~row.GuardrailsPassed
              /\ row.FailedGuardrailName = blockCtx[r].GuardrailName

\* The log sink has drained: nothing is queued or batched, or Close has
\* returned after the worker finished.
LogDrained ==
    \/ logSink.channel = <<>> /\ logSink.batch = <<>>
    \/ logSink.closed /\ logSink.worker = "exited"

\* C17: once the log sink has drained, also through shutdown, storage holds
\* exactly one request_logs row under the request id of every request Capture
\* has logged; stated for the records the sink accepted before Close began,
\* with no batch failed.
C17_OneLogRowPerRequest ==
    \A r \in Requests :
        ( /\ LogDrained
          /\ logSink.failedBatches = 0
          /\ cap[r].pc = "logged"
          /\ cap[r].queued /\ ~cap[r].closing )
        => Cardinality(LogRows(cap[r].requestID)) = 1

\* The metrics sink has drained: nothing is queued or batched.
MetricsDrained == metricSink.channel = <<>> /\ metricSink.batch = <<>>

\* C18: once both sinks have drained, storage holds exactly one
\* guardrail_metrics row, under the request's id, for every metric a guardrail
\* invocation of a logged request handed to the metrics writer; stated for
\* runs in which no metric was dropped, shutdown has not begun and the
\* request's own log row is stored.
C18_OneMetricRowPerInvocation ==
    \A r \in Requests :
        ( /\ MetricsDrained
          /\ metricSink.droppedWrites = 0
          /\ ~logSink.cancelled
          /\ cap[r].pc = "logged"
          /\ LogRows(cap[r].requestID) # {} )
        => \A m \in BagToSet(metrics[r]) :
              /\ m.RequestID = cap[r].requestID
              /\ CopiesIn(m, db.guardrail_metrics) = CopiesIn(m, metrics[r])

\* The requests Capture has given a request id.
Captured == {r \in Requests : cap[r].pc \in {"serving", "logged"}}

\* C19: within a captured request, the request id ServeHTTP read from the
\* context, the RequestID of the log record and the RequestID of every metric
\* handed to the metrics writer are the id Capture minted, and two captured
\* requests have different ids.
C19_OneRequestIdThroughout ==
    /\ \A r \in Captured :
          /\ rid[r] # NoUUID => rid[r] = cap[r].requestID
          /\ cap[r].pc = "logged" => cap[r].log.RequestID = cap[r].requestID
          /\ \A m \in BagToSet(metrics[r]) : m.RequestID = cap[r].requestID
    /\ \A r1, r2 \in Captured : r1 # r2 => cap[r1].requestID # cap[r2].requestID
    /\ \A m \in Range(metricSink.channel) \cup Range(metricSink.batch)
                 \cup BagToSet(db.guardrail_metrics) :
          \E r \in Captured : m.RequestID = cap[r].requestID /\ m \in BagToSet(metrics[r])

\* A request has been logged after its guardrails handed in metrics, one of
\* which is stored.
C19_Witness ==
    \E r \in Requests :
        /\ cap[r].pc = "logged"
        /\ rid[r] # NoUUID
        /\ \E m \in BagToSet(metrics[r]) : m \in BagToSet(db.guardrail_metrics)

\* C20: WriteLog and Write return in every state of their sink, whether the
\* queue is full, the worker takes no step, or Close has begun: the step that
\* submits a record can always be taken. When the queue is full the step
\* leaves the queue as it is and adds one to the dropped counter; otherwise it
\* appends the record and adds one to the counter of accepted records.
C20_SubmitNeverBlocks ==
    /\ [](\A r \in Requests :
            /\ (cap[r].pc = "serving" /\ hpc[r] = "done") => ENABLED CaptureEnd(r)
            /\ \A k \in 1..MaxGuardrails :
                  (ex[r].state = "running" /\ k \in DOMAIN ex[r].pc /\ ex[r].pc[k] = "checking")
                  => ENABLED CheckReturn(r, k, "pass"))
    /\ [][\A r \in Requests :
            /\ (cap[r].pc = "serving" /\ cap'[r].pc = "logged") =>
                  IF Len(logSink.channel) >= LogBufferSize
                  THEN /\ logSink'.channel = logSink.channel
                       /\ logSink'.droppedLogs = logSink.droppedLogs + 1
                       /\ logSink'.totalLogs = logSink.totalLogs
                  ELSE /\ logSink'.channel = Append(logSink.channel, cap'[r].log)
                       /\ logSink'.droppedLogs = logSink.droppedLogs
                       /\ logSink'.totalLogs = logSink.totalLogs + 1
            /\ metrics'[r] # metrics[r] =>
                  IF Len(metricSink.channel) >= MetricsBufferSize
                  THEN /\ metricSink'.channel = metricSink.channel
                       /\ metricSink'.droppedWrites = metricSink.droppedWrites + 1
                       /\ metricSink'.totalWrites = metricSink.totalWrites
                  ELSE /\ Len(metricSink'.channel) = Len(metricSink.channel) + 1
                       /\ CopiesIn(metricSink'.channel[Len(metricSink'.channel)], metrics'[r])
                            = CopiesIn(metricSink'.channel[Len(metricSink'.channel)], metrics[r]) + 1
                       /\ metricSink'.droppedWrites = metricSink.droppedWrites
                       /\ metricSink'.totalWrites = metricSink.totalWrites + 1]_vars

\* A log record was dropped on a full queue after Close had begun and with
\* the worker still running.
C20_Witness ==
    /\ logSink.droppedLogs > 0
    /\ logSink.cancelled
    /\ logSink.worker = "running"
    /\ \E r \in Requests : cap[r].pc = "logged" /\ ~cap[r].queued /\ cap[r].closing

\* The flushes of a writer that returned an error.
FailedFlushes(w) == {i \in DOMAIN w.flushes : ~w.flushes[i].ok /\ ~w.flushes[i].panic}

\* A record of a writer's i-th flush is nowhere in the writer any more and in
\* no other flush.
GoneFromWriter(w, i) ==
    \A rec \in Range(w.flushes[i].batch) :
        /\ rec \notin Range(w.channel) \cup Range(w.batch)
        /\ \A j \in DOMAIN w.flushes : j # i => rec \notin Range(w.flushes[j].batch)

\* After a writer's latest flush failed, off the cancellation path and with
\* Close not called, its worker is still running.
GoesOn(w) ==
    (w.flushes # <<>> /\ Len(w.flushes) \in FailedFlushes(w)
        /\ w.flushes[Len(w.flushes)].on # "done" /\ ~w.cancelled)
    => w.worker = "running"

\* C21: in either writer, every flush that failed has added exactly one to
\* failedBatches; the records of its batch are discarded, neither stored nor
\* kept in the writer nor part of another flush; and the worker goes on.
C21_FailedBatchDiscarded ==
    /\ logSink.failedBatches = Cardinality(FailedFlushes(logSink))
    /\ metricSink.failedBatches = Cardinality(FailedFlushes(metricSink))
    /\ \A i \in FailedFlushes(logSink) :
          /\ GoneFromWriter(logSink, i)
          /\ \A rec \in Range(logSink.flushes[i].batch) :
                RequestLogRow(rec) \notin db.request_logs
    /\ \A i \in FailedFlushes(metricSink) :
          /\ GoneFromWriter(metricSink, i)
          /\ \A rec \in Range(metricSink.flushes[i].batch) :
                CopiesIn(rec, db.guardrail_metrics) = 0
    /\ GoesOn(logSink)
    /\ GoesOn(metricSink)

\* In each writer a flush has failed and a later flush has stored its batch.
C21_Witness ==
    /\ \E i \in FailedFlushes(logSink) :
          \E j \in DOMAIN logSink.flushes : i < j /\ logSink.flushes[j].ok
    /\ \E i \in FailedFlushes(metricSink) :
          \E j \in DOMAIN metricSink.flushes : i < j /\ metricSink.flushes[j].ok

\* C22: a flush is one transaction. In either writer, of every batch flushed
\* so far storage holds every record, when the flush succeeded, or none, when
\* it failed, whichever row the failure was on.
C22_FlushAllOrNothing ==
    /\ \A i \in DOMAIN logSink.flushes :
          LET f == logSink.flushes[i]
          IN IF f.ok
             THEN \A rec \in Range(f.batch) : RequestLogRow(rec) \in db.request_logs
             ELSE \A rec \in Range(f.batch) : RequestLogRow(rec) \notin db.request_logs
    /\ \A i \in DOMAIN metricSink.flushes :
          LET f == metricSink.flushes[i]
          IN IF f.ok
             THEN \A rec \in Range(f.batch) : CopiesIn(rec, db.guardrail_metrics) = 1
             ELSE \A rec \in Range(f.batch) : CopiesIn(rec, db.guardrail_metrics) = 0

\* A metrics flush of several records has failed though the request of its
\* first record has its log row, and a log flush has failed.
C22_Witness ==
    /\ \E i \in FailedFlushes(metricSink) :
          LET f == metricSink.flushes[i]
          IN /\ Len(f.batch) > 1
             /\ LogRows(f.batch[1].RequestID) # {}
    /\ FailedFlushes(logSink) # {}

\* The n-th record submitted to a writer is on its queue or in its batch.
Pending(w, n) == \E rec \in Range(w.channel) \cup Range(w.batch) : rec.ID[2] = n

\* The n-th record submitted to a writer has been part of a flush.
Flushed(w, n) ==
    \E i \in DOMAIN w.flushes : \E rec \in Range(w.flushes[i].batch) : rec.ID[2] = n

\* C23: a worker's batch is flushed in the step in which it reaches the batch
\* size, so between steps it holds fewer records than that; and with workers
\* and ticks scheduled fairly, every record accepted into a queue is part of a
\* flush in the end, unless Close is called on its writer first.
C23_BatchesFlushedInTime ==
    /\ [](Len(logSink.batch) < LogBatchSize /\ Len(metricSink.batch) < MetricsBatchSize)
    /\ \A n \in 1..MaxSubmits :
          /\ Pending(logSink, n) ~> (Flushed(logSink, n) \/ logSink.cancelled)
          /\ Pending(metricSink, n) ~> (Flushed(metricSink, n) \/ metricSink.cancelled)

\* With Close called on neither writer, the log worker has flushed a batch on
\* reaching the batch size and the metrics worker one on a tick.
C23_Witness ==
    /\ ~logSink.cancelled /\ ~metricSink.cancelled
    /\ \E i \in DOMAIN logSink.flushes :
          logSink.flushes[i].on = "full" /\ Len(logSink.flushes[i].batch) = LogBatchSize
    /\ \E i \in DOMAIN metricSink.flushes :
          metricSink.flushes[i].on = "tick" /\ Len(metricSink.flushes[i].batch) < MetricsBatchSize

\* A step in which a writer's worker returns: its context is cancelled, and a
\* non-empty batch is flushed once, from the cancellation case.
WorkerExit(w, wn) ==
    (w.worker = "running" /\ wn.worker = "exited")
    => /\ w.cancelled
       /\ wn.batch = <<>>
       /\ IF w.batch # <<>>
          THEN /\ Len(wn.flushes) = Len(w.flushes) + 1
               /\ wn.flushes[Len(wn.flushes)].batch = w.batch
               /\ wn.flushes[Len(wn.flushes)].on = "done"
          ELSE wn.flushes = w.flushes

\* A worker that has returned receives and flushes nothing more.
WorkerGone(w, wn) ==
    w.worker = "exited"
    => wn.worker = "exited" /\ wn.flushes = w.flushes /\ wn.batch = w.batch

\* C24: once Close is called on a writer, its worker sees the cancelled
\* context in the end, flushes a non-empty batch exactly once from the
\* cancellation case and returns for good; and the log writer closes the
\* database only after its worker has returned or its wait has timed out.
C24_CloseStopsWorkers ==
    /\ [][/\ WorkerExit(logSink, logSink') /\ WorkerExit(metricSink, metricSink')
          /\ WorkerGone(logSink, logSink') /\ WorkerGone(metricSink, metricSink')
          /\ (~db.closed /\ db'.closed) =>
                /\ logSink.cancelled
                /\ logSink.worker = "exited" \/ logSink'.closedOn = "timeout"]_vars
    /\ logSink.cancelled ~> logSink.worker = "exited"
    /\ metricSink.cancelled ~> metricSink.worker = "exited"

\* Both workers have returned after flushing a batch from the cancellation
\* case, and the log writer has then closed the database.
C24_Witness ==
    /\ logSink.worker = "exited" /\ metricSink.worker = "exited"
    /\ \E i \in DOMAIN logSink.flushes : logSink.flushes[i].on = "done"
    /\ \E i \in DOMAIN metricSink.flushes : metricSink.flushes[i].on = "done"
    /\ db.closed /\ logSink.closedOn = "done"

\* C25: when shutdown has closed the database, both sinks have been closed
\* before: the log writer's worker has returned or its wait timed out, and,
\* where a metrics writer is wired, its context is cancelled and its worker
\* has returned after its final flush.
C25_ShutdownClosesBothSinks ==
    db.closed
    => /\ logSink.cancelled
       /\ logSink.worker = "exited" \/ logSink.closedOn = "timeout"
       /\ cfg.metricsWriter =>
             /\ metricSink.cancelled
             /\ metricSink.worker = "exited"
             /\ metricSink.batch = <<>>

\* The request was answered by the pass-through tail of ServeHTTP.
PassedThrough(r) ==
    /\ hpc[r] = "done"
    /\ upstream[r] # NoUpstream
    /\ \A c \in executed[r] : c[2]

\* The request was answered by the output-override branch of ServeHTTP.
OutputOverridden(r) == hpc[r] = "done" /\ blockCtx[r].Layer = "output"

\* The headers the override branch sets after copying the upstream's.
OverrideSets == {"Content-Length", "Content-Type"}

\* A header of the CORS set has at most one value in the client's response.
CorsSingle(r) == \A key \in CorsHeaders : Len(client[r].header[key]) <= 1

\* The client's response holds, under the key, every value the upstream sent,
\* appended to what the writer held.
Appended(r, key) == client[r].header[key] = WriterHeaders[key] \o upstream[r].Header[key]

\* C30 as stated: on the pass-through path and on the output-override path,
\* every CORS header has at most one value in the client's response, and every
\* other upstream header is there with all of its values.
C30_EveryOtherHeaderAppended ==
    \A r \in Requests :
        (PassedThrough(r) \/ OutputOverridden(r))
        => /\ CorsSingle(r)
           /\ \A key \in HeaderNames \ CorsHeaders : Appended(r, key)

\* C30: on the pass-through path and on the output-override path, every CORS
\* header has at most one value in the client's response, however many the
\* upstream sent and although the CORS middleware set it before; every other
\* upstream header is there with all of its values, except that the override
\* path replaces Content-Length by the refusal's length and Content-Type by
\* application/json.
C30_CorsSingleOthersAppended ==
    \A r \in Requests :
        /\ PassedThrough(r)
           => /\ CorsSingle(r)
              /\ \A key \in HeaderNames \ CorsHeaders : Appended(r, key)
        /\ OutputOverridden(r)
           => /\ CorsSingle(r)
              /\ \A key \in HeaderNames \ (CorsHeaders \cup OverrideSets) : Appended(r, key)
              /\ client[r].header["Content-Length"] = <<ToString(Len(client[r].body))>>
              /\ client[r].header["Content-Type"] = <<"application/json">>

\* An upstream answer with two values under a CORS header the middleware had
\* set, two under one it had not, and two under Via was overridden at the
\* output layer.
C30_Witness ==
    \E r \in Requests :
        /\ OutputOverridden(r)
        /\ Len(upstream[r].Header["Access-Control-Allow-Origin"]) = 2
        /\ Len(upstream[r].Header["Access-Control-Expose-Headers"]) = 2
        /\ client[r].header["Via"] = <<"1.1 a", "1.1 b">>

\* ------------------------------------------ properties of the capture functions

RequestBodyCaptured == unit.fn = "captureBody" /\ unit.pc = "done"

\* C26: the body the handler below the capture layer reads, and forwards
\* upstream, is byte for byte the body the client sent, whatever its length
\* against the capture limit.
C26_DownstreamBodyUntouched ==
    RequestBodyCaptured => unit.downstream = unit.sent

EndsWith(s, suffix) ==
    /\ Len(s) >= Len(suffix)
    /\ SubSeq(s, Len(s) - Len(suffix) + 1, Len(s)) = suffix

\* C27: a captured body no longer than the limit, the limit itself included,
\* is logged as sent, with no marker; a longer one is logged ending with the
\* marker and at most limit + |marker| bytes long.
C27_TruncationLaw ==
    (RequestBodyCaptured /\ unit.hasBody)
    => IF Len(unit.sent) <= unit.maxBodySize
         THEN unit.captured = unit.sent
         ELSE /\ EndsWith(unit.captured, TruncationMarker)
              /\ Len(unit.captured) <= unit.maxBodySize + Len(TruncationMarker)

\* C28: after any number of Writes, every byte written has been passed to the
\* client, and the captured copy is the whole of what was written if that is
\* within the limit, and its first limit bytes followed by the marker
\* otherwise, wherever the boundaries between the Writes fell.
C28_ResponseCaptureLaw ==
    unit.fn = "Write"
    => /\ unit.client \o unit.data = unit.sent
       /\ unit.body = IF Len(unit.client) <= unit.maxBodySize
                        THEN unit.client
                        ELSE SubSeq(unit.client, 1, unit.maxBodySize) \o TruncationMarker

\* A header name that equals a sensitive name when case is ignored.
IsSensitive(key) == \E name \in sensitiveHeaders : ToLower(key) = ToLower(name)

\* Two header maps with the same names and, under every name that is not
\* sensitive, the same values.
DifferOnlyInSensitiveValues(g, h) ==
    /\ DOMAIN g = DOMAIN h
    /\ \A key \in DOMAIN g : ~IsSensitive(key) => g[key] = h[key]

\* What the capture layer stores of a request's headers.
C29_CaptureHeadersRedacts ==
    (unit.fn = "captureHeaders" /\ unit.pc = "done")
    => /\ \A key \in DOMAIN unit.headers :
             IF IsSensitive(key)
               THEN unit.stored[key] = Redacted
               ELSE unit.stored[key].values = unit.headers[key]
       /\ DOMAIN unit.stored = DOMAIN unit.headers
       /\ \A h \in HeaderMaps :
             DifferOnlyInSensitiveValues(h, unit.headers)
             => captureHeaders(h) = unit.stored

\* What SanitizeForLog returns of a captured header map.
C29_SanitizeForLogRedacts ==
    (unit.fn = "SanitizeForLog" /\ unit.pc = "done")
    => /\ DOMAIN unit.stored = DOMAIN unit.logged
       /\ \A key \in DOMAIN unit.logged :
             unit.stored[key] = IF IsSensitive(key) THEN Redacted ELSE unit.logged[key]

\* C29: header sanitization replaces the value of every header whose name is
\* authorization, x-api-key, cookie, x-auth-token or bearer in any
\* capitalisation by the sentinel and keeps every other header, so that two
\* requests differing only in sensitive values store the same headers.
C29_SensitiveHeadersRedacted ==
    /\ C29_CaptureHeadersRedacts
    /\ C29_SanitizeForLogRedacts

\* ------------------------------------------------ properties of error handling

\* C31: a request to a routed endpoint whose method is not among the methods
\* the provider advertises for the endpoint is answered with 405, and neither
\* a guardrail call nor the provider is invoked for it. Methods are compared
\* as isMethodAllowed compares them, in upper case.
C31_UnadvertisedMethodRefused ==
    \A r \in Requests :
        ( /\ hpc[r] = "done"
          /\ request[r].path \in Routes
          /\ ToUpper(request[r].method) \notin EndpointMethods(request[r].path) )
        => /\ client[r].status = 405
           /\ executed[r] = {}
           /\ trace[r] = {}
           /\ providerCalls[r] = 0

\* C32: the step in which the provider returns an error answers the client
\* with 502 and ends the request; a request answered with 502 has invoked the
\* provider once and run no output guardrail; and once a request has ended,
\* the provider is not invoked for it again.
C32_ProviderErrorIs502NoRetry ==
    /\ [][\A r \in Requests :
            ProxyRequest(r, "error", NoUpstream)
            => /\ client'[r].written /\ client'[r].status = 502
               /\ hpc'[r] = "done"]_vars
    /\ [](\A r \in Requests :
            (hpc[r] = "done" /\ client[r].status = 502)
            => /\ providerCalls[r] = 1
               /\ upstream[r] = NoUpstream
               /\ \A c \in executed[r] : c[1] = "input"
               /\ \A e \in trace[r] : e[2] = "input")
    /\ [][\A r \in Requests :
            hpc[r] = "done"
            => /\ hpc'[r] = "done"
               /\ providerCalls'[r] = providerCalls[r]
               /\ client'[r] = client[r]
               /\ executed'[r] = executed[r]]_vars

\* The provider returned an error to a request whose input guardrails had
\* passed, with output guardrails configured.
C32_Witness ==
    \E r \in Requests :
        /\ hpc[r] = "done" /\ client[r].status = 502
        /\ providerCalls[r] = 1
        /\ <<"input", TRUE>> \in executed[r]
        /\ cfg.outputGuardrails # <<>>

ModerationReturned == unit.fn = "Check" /\ unit.pc = "done"

\* Extracting the message or calling the moderation API failed.
ModerationFailed ==
    \/ unit.arg.extraction = "error"
    \/ unit.arg.extraction = "ok" /\ (~unit.guardrail.apiKey \/ unit.arg.api # "ok")

\* C33: Check of the moderation guardrail returns a result and no error;
\* whenever extracting the message or calling the API failed (network error,
\* status other than 200, missing key, cancelled context) the result has
\* Passed = true and the error in its metadata; the result has Passed = false
\* only when the API call succeeded, its result flagged the content and
\* block_on_flag is set.
C33_ModerationFailsOpen ==
    ModerationReturned
    => /\ ~unit.ret.isNil /\ unit.ret.err = ""
       /\ ModerationFailed => (unit.ret.Passed /\ unit.ret.error # "")
       /\ ~unit.ret.Passed
          => /\ ~ModerationFailed
             /\ unit.arg.extraction = "ok" /\ unit.arg.api = "ok"
             /\ unit.arg.Flagged \/ unit.arg.hit # {}
             /\ unit.guardrail.blockOnFlag

\* The API was asked under a cancelled context by a guardrail that blocks on
\* flag, and Check has returned.
C33_Witness ==
    /\ ModerationReturned
    /\ unit.arg.extraction = "ok" /\ unit.arg.api = "cancelled"
    /\ unit.guardrail.apiKey /\ unit.guardrail.blockOnFlag
    /\ unit.ret.Passed

\* ------------------------------------------- properties of the content chain

\* The tasks of the running group whose Check has been invoked.
Invoked(f) ==
    {k \in DOMAIN f.pc : f.pc[k] \in {"checking", "checked", "recorded"}
                           \/ (f.pc[k] = "returned" /\ f.outcome[k] # "")}

\* The tasks of the running group whose Check returned modified content.
Modifiers(f) == {k \in DOMAIN f.outcome : f.outcome[k] = "modify"}

\* The content a passed group hands on: the modification of its first
\* modifier in configured order, or the content it was given.
HandedOn(f) ==
    IF Modifiers(f) = {} THEN f.content
    ELSE ModifiedContent(f.group[CHOOSE k \in Modifiers(f) : \A j \in Modifiers(f) : k <= j])

\* C34: every Check of one priority group is given the same content, the
\* executor's current content, which does not change while the group runs;
\* when a group has passed, the content for the next group is the modified
\* content of the first guardrail of the group, in configured order, that
\* returned one, and the unchanged content if none did.
C34_GroupContentChain ==
    /\ [](\A r \in Requests : \A k \in Invoked(ex[r]) : ex[r].given[k] = ex[r].content)
    /\ [][\A r \in Requests :
            /\ (ex[r].group # <<>> /\ ex'[r].group # <<>>) => ex'[r].content = ex[r].content
            /\ ( /\ ex[r].group # <<>> /\ ex'[r].group = <<>>
                 /\ \A k \in DOMAIN ex[r].outcome : OutcomePassed(ex[r].outcome[k]) )
               => ex'[r].content = HandedOn(ex[r])]_vars

\* A group of two guardrails has passed with both returning modified
\* content, and the chain holds the modification of the first of them.
C34_Witness ==
    \E r \in Requests :
        /\ ex[r].state = "done"
        /\ ex[r].result.Passed
        /\ Len(ex[r].allResults) = 2
        /\ \A i \in 1..2 : ex[r].allResults[i].Modified /\ ex[r].allResults[i].Priority = 0
        /\ ex[r].content = ModifiedContent(1)

\* C35: an executor call on a layer whose guardrail list is empty returns at
\* once with Passed = true and no results, whatever the content; no task is
\* spawned and no Check invoked for it, and it submits no metric.
C35_EmptyListPasses ==
    \A r \in Requests :
        /\ (ex[r].state # "idle" /\ ListOf(ex[r].call) = <<>>)
           => /\ ex[r].state = "done"
              /\ ex[r].result = [Passed |-> TRUE, FailedGuardrail |-> NoName,
                                  FailureReason |-> "", Results |-> <<>>]
        /\ \A call \in {"input", "output", "rerun"} :
              ListOf(call) = <<>>
              => /\ \A e \in trace[r] : e[2] # call
                 /\ \A m \in BagToSet(metrics[r]) : m.ID[1] # call
                 /\ <<call, FALSE>> \notin executed[r]

\* ExecuteInput has returned for a request although no input guardrail is
\* configured, under an executor with a metrics writer and output guardrails.
C35_Witness ==
    \E r \in Requests :
        /\ cfg.executor /\ cfg.metricsWriter
        /\ cfg.inputGuardrails = <<>> /\ cfg.outputGuardrails # <<>>
        /\ <<"input", TRUE>> \in executed[r]
        /\ hpc[r] = "done"

\* The results of a list that carry modified content.
ModifiedIn(results) ==
    {i \in DOMAIN results : ~results[i].isNil /\ results[i].Modified}

\* The content at the end of the executor's chain, read off the results of a
\* passed call: the modification taken from the last group that produced
\* one, which is that of the group's first modifier.
ChainFinal(results, content) ==
    IF ModifiedIn(results) = {} THEN content
    ELSE LET last == CHOOSE p \in {results[i].Priority : i \in ModifiedIn(results)} :
                        \A i \in ModifiedIn(results) : results[i].Priority <= p
             first == CHOOSE i \in ModifiedIn(results) :
                        /\ results[i].Priority = last
                        /\ \A j \in ModifiedIn(results) :
                              results[j].Priority = last => i <= j
         IN results[first].ModifiedContent

\* C36: when the input guardrails have passed, the body about to be forwarded
\* upstream is the final content of the executor's chain: the modification
\* of the last group that modified, or the client's body if none did.
C36_ForwardsFinalContent ==
    \A r \in Requests :
        (hpc[r] = "proxy" /\ <<"input", TRUE>> \in executed[r])
        => forwardBody[r] = ChainFinal(hres[r].Results, request[r].body)

\* ------------------------------------------- properties of task lifetimes

C40_WorkerSurvivesEveryRecord ==
    /\ logSink.worker # "running" => logSink.cancelled
    /\ \A i \in DOMAIN logSink.flushes :
          logSink.flushes[i].ok \/ i \in FailedFlushes(logSink)
    /\ logSink.failedBatches = Cardinality(FailedFlushes(logSink))

\* ------------------------------------- properties of a sink's concurrency

\* The submit calls that have returned.
Returned(p) == p.sub["s1"].returned + p.sub["s2"].returned

\* The calls whose select sent their record and whose count is still to come.
SentUncounted(p) == {s \in DOMAIN p.sub : p.sub[s].pc # "idle" /\ p.sub[s].sent}

\* C38: for a sink of either kind, the queue never holds more than the buffer
\* size, and under every interleaving of concurrent submit calls the total
\* counter plus the dropped counter is the number of calls that have
\* returned: the total counter counts exactly the returned calls whose record
\* the queue accepted, the dropped counter the others.
C38_EverySubmitCountedOnce ==
    pool.kind # "none"
    => /\ Len(pool.channel) <= PoolBufferSize(pool)
       /\ pool.total + pool.dropped = Returned(pool)
       /\ pool.total = Cardinality(pool.accepted) - Cardinality(SentUncounted(pool))

\* Two submit calls have run at the same time and returned, one accepted and
\* one dropped, while the workers had taken nothing off the queue.
C38_Witness ==
    /\ pool.kind # "none"
    /\ pool.sub["s1"].returned = 1 /\ pool.sub["s2"].returned = 1
    /\ pool.total = 1 /\ pool.dropped = 1
    /\ Len(pool.channel) = PoolBufferSize(pool)

\* How often a record occurs in a sequence.
Occurrences(seq, x) == Cardinality({i \in DOMAIN seq : seq[i] = x})

\* The sequence is a run of consecutive elements of the other.
IsRunOf(run, seq) ==
    \E a \in 0..Len(seq) : a + Len(run) <= Len(seq) /\ SubSeq(seq, a + 1, a + Len(run)) = run

\* The dequeues of a record: the worker and the position in what it took.
Dequeues(p, x) ==
    {d \in (DOMAIN p.workers) \X (1..MaxSubmits) :
        d[2] \in DOMAIN p.workers[d[1]].took /\ p.workers[d[1]].took[d[2]] = x}

\* C39: with several workers and under every interleaving, every record the
\* queue accepted is in the queue or was dequeued by exactly one worker,
\* once; it is part of at most one flush, so that no row is persisted twice;
\* and every batch flushed or held by a worker holds records in the order in
\* which that worker dequeued them.
C39_DequeuedOnceFlushedOnce ==
    pool.kind # "none"
    => /\ \A x \in pool.accepted :
             Occurrences(pool.channel, x) + Cardinality(Dequeues(pool, x)) = 1
       /\ \A f \in BagToSet(pool.flushes) :
             /\ CopiesIn(f, pool.flushes) = 1
             /\ IsRunOf(f.batch, pool.workers[f.worker].took)
             /\ \A x \in Range(f.batch) :
                   /\ Occurrences(f.batch, x) = 1
                   /\ \A g \in BagToSet(pool.flushes) : g # f => x \notin Range(g.batch)
       /\ \A i \in DOMAIN pool.workers :
             /\ IsRunOf(pool.workers[i].batch, pool.workers[i].took)
             /\ \A f \in BagToSet(pool.flushes) :
                   Range(f.batch) \cap Range(pool.workers[i].batch) = {}
       /\ \A m \in BagToSet(pool.db.guardrail_metrics) :
             CopiesIn(m, pool.db.guardrail_metrics) = 1

\* Two workers have each dequeued a record and flushed it with success.
C39_Witness ==
    /\ pool.kind # "none"
    /\ \E f, g \in BagToSet(pool.flushes) :
          f.worker # g.worker /\ f.ok /\ g.ok /\ f.batch # <<>> /\ g.batch # <<>>
====
